---- MODULE Spec2Model ----
(***************************************************************************)
(* Headless authentication watcher of the teleterm daemon service          *)
(* (lib/teleterm/daemon, src/unnamed/part_005).                            *)
(*                                                                         *)
(* The model follows the Go code: the registry of watch cancel functions   *)
(* guarded by headlessWatcherClosersMu, one goroutine per watch running    *)
(* the retry loop around watch(), the per-watch pendingRequests map and    *)
(* one goroutine per pending request that calls                            *)
(* sendPendingHeadlessAuthentication.                                      *)
(***************************************************************************)
EXTENDS Integers, Sequences, FiniteSets, TLC

\* ------------------------------------------------------------------ bounds
MaxWatches == 2        \* watches created over a behaviour (calls of startHeadlessWatcher)
MaxTasks == 2          \* notification goroutines spawned over a behaviour
NumNames == 1          \* distinct headless authentication names on the streams
SemCapacity == 1       \* slots of importantModalSemaphore (sized where the service is built)
MaxGoroutines == 2     \* MFA prompt goroutines startGoroutines can spawn (OTP, Webauthn)
MaxCallers == 2        \* goroutines that call Cache.Get
MaxBuilds == 3         \* calls of clientBuilder over a behaviour
MaxRotations == 2      \* changes of the certificate in tbot's memory over a behaviour
MaxAttempts == 7       \* values of the attempt counter of a retry object

ClusterSeq == <<"c1", "c2">>
Clusters == {ClusterSeq[i] : i \in 1..Len(ClusterSeq)}
Watches == 1..MaxWatches
Tasks == 1..MaxTasks
Names == 1..NumNames
Goroutines == 1..MaxGoroutines
Callers == 1..MaxCallers
Clients == 1..MaxBuilds

VARIABLES
    closeContext,            \* TRUE once s.closeContext is cancelled
    connected,               \* cluster.Connected() of every cluster
    headlessWatcherClosers,  \* cluster -> watch whose cancel function is registered, 0 = no entry
    lastStart,               \* the last StartHeadlessWatcher call: its watch, its waitInit, and "waiting" or its result
    nextW,                   \* next fresh watch
    wPc,                     \* position of the goroutine of every watch
    wCluster,                \* cluster of every watch
    wCancel,                 \* watchCancel of the watch has been invoked
    wPrev,                   \* the watch startHeadlessWatcher found registered and stopped when it created this one, 0 = none
    wInit,                   \* pendingWatcherInitialized is closed
    wErr,                    \* error returned by the last call of watch(); once the retry loop returned, why it did
    pendingRequests,         \* watch -> name -> task whose cancelSend is stored, 0 = no entry
    resolved,                \* watch -> names whose terminal resolution was processed after their last pending event
    nextT,                   \* next fresh notification task
    tPc,                     \* position of every notification goroutine
    tName,                   \* request name of every task
    tWatch,                  \* watch that spawned the task
    tCancel,                 \* cancelSend of the task has been invoked, or its deadline has passed
    returned,                \* what the call completed by the last step returned; NoCall after any other step
    hPc,                     \* position of HandleMFAGoroutines
    gPc,                     \* position of every MFA prompt goroutine
    respC,                   \* the responses buffered in respC, oldest first
    respCClosed,             \* close(respC) was called
    hErrs,                   \* errs of HandleMFAGoroutines: the errors collected so far
    mfaCancel,               \* cancel of the context given to the goroutines was called
    hReturn,                 \* what HandleMFAGoroutines returns: response and error
    sent,                    \* the goroutines in the order in which they sent their response to respC
    promptConfig,            \* the PromptConfig GetRunOptions is called on
    chal,                    \* the MFAAuthenticateChallenge given to GetRunOptions
    runOpts,                 \* what GetRunOptions returned: RunOpts and error; NotCalled before the call
    cert,                    \* the certificate bytes certGetter reads
    certGen,                 \* how often the certificate bytes have changed
    mutex,                   \* c.mutex is locked
    cachedCert,              \* c.cachedCert
    cachedClient,            \* c.cachedClient, 0 = nil
    clientState,             \* every SyncClient: "none" (not built), "open", "retiring" (RetireClient called), "closed"
    buildLog,                \* the calls of clientBuilder: generation of the certificate read before, client built (0 = error)
    cPc,                     \* position of every caller of Get
    cCert,                   \* the bytes certGetter returned to the caller's Get
    cGen,                    \* the generation of those bytes
    cRaced,                  \* c.mutex was locked when the caller called Get
    cRet,                    \* what Get returned to the caller
    rPc,                     \* position of the goroutine that owns the retry object: "none" before NewLinear
    first,                   \* LinearConfig.First of the retry object, in seconds
    attempt,                 \* the attempt counter of the retry object
    restarts,                \* restarts of watch() since the last init event (since NewLinear before the first)
    waited                   \* the delay waited before the last restart, in seconds

vars == <<closeContext, connected, headlessWatcherClosers, lastStart, nextW,
          wPc, wCluster, wCancel, wPrev, wInit, wErr, pendingRequests, resolved,
          nextT, tPc, tName, tWatch, tCancel, returned,
          hPc, gPc, respC, respCClosed, hErrs, mfaCancel, hReturn, sent,
          promptConfig, chal, runOpts,
          cert, certGen, mutex, cachedCert, cachedClient, clientState, buildLog,
          cPc, cCert, cGen, cRaced, cRet,
          rPc, first, attempt, restarts, waited>>

loopVars == <<wInit, wErr, pendingRequests, resolved>>
taskVars == <<nextT, tPc, tName, tWatch, tCancel>>
envVars == <<closeContext, connected>>

\* Variables of the other components of the repository; the headless watcher reads and
\* writes none of them.
registryVars == <<closeContext, connected, headlessWatcherClosers, lastStart, nextW,
                  wPc, wCluster, wCancel, wPrev, wInit, wErr, pendingRequests, resolved,
                  nextT, tPc, tName, tWatch, tCancel, returned>>
retryVars == <<rPc, first, attempt, restarts, waited>>
watcherVars == <<registryVars, retryVars>>
mfaVars == <<hPc, gPc, respC, respCClosed, hErrs, mfaCancel, hReturn, sent>>
promptVars == <<promptConfig, chal, runOpts>>
cacheVars == <<cert, certGen, mutex, cachedCert, cachedClient, clientState, buildLog,
               cPc, cCert, cGen, cRaced, cRet>>
otherVars == <<mfaVars, promptVars, cacheVars, retryVars>>

\* A call that returned: the method, the uri it was given and the error it returned.
Return(op, uri, err) == [op |-> op, uri |-> uri, err |-> err]

\* The last step completed no StopHeadlessWatcher, StartHeadlessWatchers or
\* StopHeadlessWatchers call.
NoCall == Return("none", "", "nil")

\* ------------------------------------------------------------------ errors
\* An error value: what it is, the goroutine it comes from (0: none), the
\* message added to it and the errors it wraps.
Error(type, of, msg, inner) == [type |-> type, of |-> of, msg |-> msg, inner |-> inner]

NilErr == Error("nil", 0, "", <<>>)

\* The response pointer and the error HandleMFAGoroutines returns; resp 0 is nil.
Returns(resp, err) == [resp |-> resp, err |-> err]

\* HandleMFAGoroutines has not chosen what it returns.
NoReturn == Returns(0, NilErr)

\* trace.BadParameter(msg)
BadParameter(msg) == Error("BadParameter", 0, msg, <<>>)

\* wancli.AttachmentAuto and the other values of wancli.AuthenticatorAttachment.
AttachmentAuto == "auto"
Attachments == {AttachmentAuto, "cross-platform", "platform"}

\* The fields of PromptConfig that GetRunOptions reads.
PromptConfig(allowStdinHijack, attachment, preferOTP, webauthnSupported) ==
    [AllowStdinHijack |-> allowStdinHijack, AuthenticatorAttachment |-> attachment,
     PreferOTP |-> preferOTP, WebauthnSupported |-> webauthnSupported]

PromptConfigs ==
    {PromptConfig(a, at, p, ws) : a \in BOOLEAN, at \in Attachments, p \in BOOLEAN, ws \in BOOLEAN}

\* DefaultPromptConfig(proxyAddr) on a platform whose hardware key support is ws.
DefaultPromptConfig(ws) == PromptConfig(FALSE, AttachmentAuto, FALSE, ws)

\* proto.MFAAuthenticateChallenge: whether chal.TOTP and chal.WebauthnChallenge are non-nil.
MFAAuthenticateChallenge(totp, webauthn) == [TOTP |-> totp, WebauthnChallenge |-> webauthn]

Challenges == {MFAAuthenticateChallenge(t, w) : t \in BOOLEAN, w \in BOOLEAN}

\* RunOpts{PromptTOTP, PromptWebauthn}
RunOpts(promptTOTP, promptWebauthn) == [PromptTOTP |-> promptTOTP, PromptWebauthn |-> promptWebauthn]

\* The two values GetRunOptions returns.
RunOptsReturn(opts, err) == [opts |-> opts, err |-> err]

\* trace.CompareFailed(msg)
CompareFailed(msg) == Error("CompareFailed", 0, msg, <<>>)

\* The error certGetter returns when it fails, and the error of clientBuilder.
CertGetterErr == Error("certGetter", 0, "", <<>>)
ClientBuilderErr == Error("clientBuilder", 0, "", <<>>)

\* []byte values: the nil slice, the empty slice and two certificates.
NilCert == "nil"
EmptyCert == ""
Certs == {"cert1", "cert2"}
CertValues == {NilCert, EmptyCert} \cup Certs

\* len(b): every certificate of Certs has five bytes.
CertLen(b) == IF b \in {NilCert, EmptyCert} THEN 0 ELSE 5

\* bytes.Equal(a, b): a nil slice equals an empty one.
BytesEqual(a, b) == IF CertLen(a) = 0 THEN CertLen(b) = 0 ELSE a = b

\* The three values Get returns: the client (0 = nil), whether the release
\* function is non-nil, and the error.
GetReturn(client, release, err) == [client |-> client, release |-> release, err |-> err]

\* The caller's Get has not returned.
NoGet == GetReturn(0, FALSE, Error("pending", 0, "", <<>>))

\* GetRunOptions has not been called.
NotCalled == RunOptsReturn(RunOpts(FALSE, FALSE), Error("pending", 0, "", <<>>))

\* ---------------------------------------------------------------- contexts
\* watchCtx, watchCancel := context.WithCancel(s.closeContext)
WatchCtxDone(w) == wCancel[w] \/ closeContext

\* A notification context derived from the context of its watch instead.
SendCtxDoneUnderWatch(t) == tCancel[t] \/ WatchCtxDone(tWatch[t])

\* sendCtx, cancelSend := context.WithTimeout(s.closeContext, defaults.HeadlessLoginTimeout)
SendCtxDone(t) == tCancel[t] \/ closeContext

\* headlessWatcherClosersMu is held for the whole of StartHeadlessWatcher,
\* the wait for the init event included; every other critical section is one step.
MuFree == lastStart.ret # "waiting"

InitService ==
    /\ closeContext = FALSE
    /\ connected \in [Clusters -> BOOLEAN]
    /\ headlessWatcherClosers = [c \in Clusters |-> 0]
    /\ lastStart = [w |-> 0, wait |-> FALSE, ret |-> "none"]
    /\ nextW = 1
    /\ wPc = [w \in Watches |-> "none"]
    /\ wCluster = [w \in Watches |-> ClusterSeq[1]]
    /\ wCancel = [w \in Watches |-> FALSE]
    /\ wPrev = [w \in Watches |-> 0]
    /\ wInit = [w \in Watches |-> FALSE]
    /\ wErr = [w \in Watches |-> "none"]
    /\ pendingRequests = [w \in Watches |-> [n \in Names |-> 0]]
    /\ resolved = [w \in Watches |-> {}]
    /\ nextT = 1
    /\ tPc = [t \in Tasks |-> "none"]
    /\ tName = [t \in Tasks |-> 1]
    /\ tWatch = [t \in Tasks |-> 1]
    /\ tCancel = [t \in Tasks |-> FALSE]
    /\ returned = NoCall
    /\ hPc = "start"
    /\ gPc = [g \in Goroutines |-> "none"]
    /\ respC = <<>>
    /\ respCClosed = FALSE
    /\ hErrs = <<>>
    /\ mfaCancel = FALSE
    /\ hReturn = NoReturn
    /\ sent = <<>>

\* No MFA challenge has been received: the default prompt configuration.
InitPrompt ==
    /\ promptConfig = DefaultPromptConfig(TRUE)
    /\ chal = MFAAuthenticateChallenge(FALSE, FALSE)
    /\ runOpts = NotCalled

\* NewCache: nothing is cached; tbot has no certificate in memory yet.
InitCache ==
    /\ cert = NilCert
    /\ certGen = 0
    /\ mutex = FALSE
    /\ cachedCert = NilCert
    /\ cachedClient = 0
    /\ clientState = [k \in Clients |-> "none"]
    /\ buildLog = <<>>
    /\ cPc = [p \in Callers |-> "idle"]
    /\ cCert = [p \in Callers |-> NilCert]
    /\ cGen = [p \in Callers |-> 0]
    /\ cRaced = [p \in Callers |-> FALSE]
    /\ cRet = [p \in Callers |-> NoGet]

\* No retry object is followed yet.
InitRetry ==
    /\ rPc = "none"
    /\ first = 0
    /\ attempt = 0
    /\ restarts = 0
    /\ waited = 0

Init == InitService /\ InitPrompt /\ InitCache /\ InitRetry

\* ---------------------------------------------------------------- registry
\* stopHeadlessWatcher: the entry of uri is looked up; NotFound when there is none
stopHeadlessWatcherFound(closers, uri) == closers[uri] # 0

\* A stop that forgets to invoke the cancel function it removes.
stopHeadlessWatcherNoCancel(cancel, closers, uri) == cancel

\* stopHeadlessWatcher: s.headlessWatcherClosers[uri]()
stopHeadlessWatcherCancel(cancel, closers, uri) ==
    IF stopHeadlessWatcherFound(closers, uri)
    THEN [cancel EXCEPT ![closers[uri]] = TRUE]
    ELSE cancel

\* A stop that reports success whether or not it found a watch.
stopHeadlessWatcherErrNil(closers, uri) == "nil"

\* stopHeadlessWatcher: the error it returns
stopHeadlessWatcherErr(closers, uri) ==
    IF stopHeadlessWatcherFound(closers, uri) THEN "nil" ELSE "notfound"

\* stopHeadlessWatcher: delete(s.headlessWatcherClosers, uri)
stopHeadlessWatcherDelete(closers, uri) == [closers EXCEPT ![uri] = 0]

\* The registry part of the service, as a record the calls below transform.
Registry ==
    [closers |-> headlessWatcherClosers, cancel |-> wCancel, pc |-> wPc,
     cluster |-> wCluster, prev |-> wPrev, next |-> nextW]

\* A start that registers the new watch over the old one without stopping it.
startHeadlessWatcherKeepOld(st, c) ==
    LET w == st.next IN
    [closers |-> [st.closers EXCEPT ![c] = w],
     cancel  |-> st.cancel,
     pc      |-> [st.pc EXCEPT ![w] = "top"],
     cluster |-> [st.cluster EXCEPT ![w] = c],
     prev    |-> [st.prev EXCEPT ![w] = st.closers[c]],
     next    |-> w + 1]

\* startHeadlessWatcher up to "go func()": a watch registered under the
\* cluster stops first, then the new watchCancel is stored and the goroutine of
\* the retry loop is started.
startHeadlessWatcher(st, c) ==
    LET w == st.next IN
    [closers |-> [stopHeadlessWatcherDelete(st.closers, c) EXCEPT ![c] = w],
     cancel  |-> stopHeadlessWatcherCancel(st.cancel, st.closers, c),
     pc      |-> [st.pc EXCEPT ![w] = "top"],
     cluster |-> [st.cluster EXCEPT ![w] = c],
     prev    |-> [st.prev EXCEPT ![w] = st.closers[c]],
     next    |-> w + 1]

SetRegistry(st) ==
    /\ headlessWatcherClosers' = st.closers
    /\ wCancel' = st.cancel
    /\ wPc' = st.pc
    /\ wCluster' = st.cluster
    /\ wPrev' = st.prev
    /\ nextW' = st.next

\* StartHeadlessWatcher(uri, waitInit): takes the mutex and calls startHeadlessWatcher.
\* With waitInit the caller stays in the select on pendingWatcherInitialized and
\* watchCtx.Done(), the mutex held.
StartHeadlessWatcher(c, waitInit) ==
    /\ returned' = NoCall
    /\ ~closeContext
    /\ MuFree
    /\ nextW <= MaxWatches
    /\ SetRegistry(startHeadlessWatcher(Registry, c))
    /\ lastStart' = [w |-> nextW, wait |-> waitInit, ret |-> IF waitInit THEN "waiting" ELSE "ok"]
    /\ UNCHANGED <<otherVars, envVars, loopVars, taskVars>>

\* A call that does not wait: it returns nil whatever the state of the watch.
waitInitResultsNoWait(w) == {"ok"}

\* The select of a waiting StartHeadlessWatcher call: either case that is ready.
waitInitResults(w) ==
    (IF wInit[w] THEN {"ok"} ELSE {}) \cup (IF WatchCtxDone(w) THEN {"err"} ELSE {})

StartHeadlessWatcherReturn ==
    /\ returned' = NoCall
    /\ lastStart.ret = "waiting"
    /\ \E r \in waitInitResults(lastStart.w) : lastStart' = [lastStart EXCEPT !.ret = r]
    /\ UNCHANGED <<otherVars, envVars, headlessWatcherClosers, nextW, wPc, wCluster, wCancel, wPrev, loopVars, taskVars>>

\* s.cfg.Storage.ReadAll(): the clusters, or an error of the storage.
ReadAllResults == {"nil", "storage"}

\* A loop that starts a watch for every cluster, connected or not.
RECURSIVE StartHeadlessWatchersAny(_, _)
StartHeadlessWatchersAny(i, st) ==
    IF i > Len(ClusterSeq) THEN st
    ELSE StartHeadlessWatchersAny(i + 1, startHeadlessWatcher(st, ClusterSeq[i]))

\* StartHeadlessWatchers: one startHeadlessWatcher(c, false) per connected cluster.
\* startHeadlessWatcher(c, false) returns nil: the stop of the old watch returns
\* nil or NotFound, and the retry configuration is built from constants.
RECURSIVE StartHeadlessWatchersFrom(_, _)
StartHeadlessWatchersFrom(i, st) ==
    IF i > Len(ClusterSeq) THEN st
    ELSE StartHeadlessWatchersFrom(i + 1,
            IF connected[ClusterSeq[i]]
            THEN startHeadlessWatcher(st, ClusterSeq[i])
            ELSE st)

StartHeadlessWatchers ==
    /\ ~closeContext
    /\ MuFree
    /\ nextW + Cardinality({c \in Clusters : connected[c]}) - 1 <= MaxWatches
    /\ \E err \in ReadAllResults :
          /\ returned' = Return("StartHeadlessWatchers", "", err)
          /\ SetRegistry(IF err = "nil" THEN StartHeadlessWatchersFrom(1, Registry) ELSE Registry)
    /\ UNCHANGED <<otherVars, envVars, lastStart, loopVars, taskVars>>

\* StopHeadlessWatcher(uri): NotFound leaves everything as it is.
StopHeadlessWatcher(c) ==
    /\ ~closeContext
    /\ MuFree
    /\ returned' = Return("StopHeadlessWatcher", c, stopHeadlessWatcherErr(headlessWatcherClosers, c))
    /\ wCancel' = stopHeadlessWatcherCancel(wCancel, headlessWatcherClosers, c)
    /\ headlessWatcherClosers' = stopHeadlessWatcherDelete(headlessWatcherClosers, c)
    /\ UNCHANGED <<otherVars, envVars, lastStart, nextW, wPc, wCluster, wPrev, loopVars, taskVars>>

\* A loop that ends after the first uri.
StopHeadlessWatchersFirst(i, st) ==
    [st EXCEPT !.cancel = stopHeadlessWatcherCancel(st.cancel, st.closers, ClusterSeq[i]),
               !.closers = stopHeadlessWatcherDelete(st.closers, ClusterSeq[i])]

\* StopHeadlessWatchers: stopHeadlessWatcher for every uri of the registry.
RECURSIVE StopHeadlessWatchersFrom(_, _)
StopHeadlessWatchersFrom(i, st) ==
    IF i > Len(ClusterSeq) THEN st
    ELSE StopHeadlessWatchersFrom(i + 1,
            [st EXCEPT !.cancel = stopHeadlessWatcherCancel(st.cancel, st.closers, ClusterSeq[i]),
                       !.closers = stopHeadlessWatcherDelete(st.closers, ClusterSeq[i])])

StopHeadlessWatchers ==
    /\ ~closeContext
    /\ MuFree
    /\ returned' = Return("StopHeadlessWatchers", "", "nil")
    /\ SetRegistry(StopHeadlessWatchersFrom(1, Registry))
    /\ UNCHANGED <<otherVars, envVars, lastStart, loopVars, taskVars>>

\* ------------------------------------------------------------- environment
\* The cluster logs in or out: cluster.Connected() changes.
SetConnected(c, b) ==
    /\ returned' = NoCall
    /\ ~closeContext
    /\ connected[c] # b
    /\ connected' = [connected EXCEPT ![c] = b]
    /\ UNCHANGED <<otherVars, closeContext, headlessWatcherClosers, lastStart, nextW, wPc, wCluster, wCancel, wPrev,
                   loopVars, taskVars>>

\* The service stops: s.closeContext is cancelled, and with it every context derived from it.
CloseService ==
    /\ returned' = NoCall
    /\ ~closeContext
    /\ closeContext' = TRUE
    /\ UNCHANGED <<otherVars, connected, headlessWatcherClosers, lastStart, nextW, wPc, wCluster, wCancel, wPrev,
                   loopVars, taskVars>>

\* ------------------------------------------------------------------ events
\* An event of a stream: its type, the name of its resource (0: the resource is
\* not a HeadlessAuthentication) and the state of the headless authentication.
States == {"pending", "approved", "denied"}

Event(type, name, state) == [type |-> type, name |-> name, state |-> state]

\* What WatchPendingHeadlessAuthentications can deliver.
PendingStreamEvents ==
    {Event("init", 0, "pending")}
    \cup {Event("put", n, "pending") : n \in Names \cup {0}}
    \cup {Event("delete", n, "pending") : n \in Names}

\* What WatchHeadlessAuthentications can deliver.
ResolutionStreamEvents ==
    {Event("init", 0, "pending")}
    \cup {Event("put", n, st) : n \in Names, st \in States}
    \cup {Event("put", 0, "pending")}
    \cup {Event("delete", n, "pending") : n \in Names}

\* Errors a stream can open with or end with.
StreamErrors == {"transient", "notimpl"}

\* A backend that never fails a stream.
NoErrors == {}

\* The pending stream while no headless login is attempted: no request is put.
QuietPendingStreamEvents == {ev \in PendingStreamEvents : ev.type = "put" => ev.name = 0}

\* The pending stream of a backend that keeps the contract: init comes first.
InitEvents == {ev \in PendingStreamEvents : ev.type = "init"}

\* --------------------------------------------------------------- the watch
\* trace.IsNotImplemented(err)
IsNotImplemented(err) == err = "notimpl"

\* A retry loop that retries after every error, not-implemented included.
afterWatchRetry(err) == "backoff"

\* A retry loop that also gives up when the first event was not the init event.
afterWatchFatal(err) == IF IsNotImplemented(err) \/ err = "badparam" THEN "exit" ELSE "backoff"

\* A retry loop that returns from the goroutine after any error.
afterWatchGiveUp(err) == "exit"

\* The retry loop after watch() returned err: not-implemented returns from the
\* goroutine, anything else (nil included) goes to the select on retry.After().
afterWatch(err) == IF IsNotImplemented(err) THEN "exit" ELSE "backoff"

ReturnFromWatch(w, err) ==
    /\ wErr' = [wErr EXCEPT ![w] = err]
    /\ wPc' = [wPc EXCEPT ![w] = afterWatch(err)]

\* cancelPendingRequest: the cancel function stored under name, if any, is invoked.
cancelPendingRequest(cancel, requests, name) ==
    IF requests[name] # 0 THEN [cancel EXCEPT ![requests[name]] = TRUE] ELSE cancel

\* cancelPendingRequest leaves the map as it is: no delete(pendingRequests, name).
cancelPendingRequestMap(requests, name) == requests

\* addPendingRequest: pendingRequests[name] = cancel
addPendingRequest(requests, name, t) == [requests EXCEPT ![name] = t]

\* What opening the two streams at the head of watch() gives: "ok", or the
\* error watch() returns (the pending stream is opened first; when the second
\* open fails the first stream is closed again).
OpenResults(errs) == {"ok"} \cup errs

\* Top of the retry loop: if !cluster.Connected() { return }; else watch() is
\* called and opens the pending stream and the resolution stream.
LoopTop(w, errs) ==
    /\ returned' = NoCall
    /\ wPc[w] = "top"
    /\ IF connected[wCluster[w]]
       THEN \E r \in OpenResults(errs) :
              IF r = "ok"
              THEN /\ wPc' = [wPc EXCEPT ![w] = "init"]
                   /\ wErr' = [wErr EXCEPT ![w] = "none"]
              ELSE ReturnFromWatch(w, r)
       ELSE /\ wPc' = [wPc EXCEPT ![w] = "exit"]
            /\ wErr' = [wErr EXCEPT ![w] = "disconnected"]
    /\ UNCHANGED <<otherVars, envVars, headlessWatcherClosers, lastStart, nextW, wCluster, wCancel, wPrev,
                   wInit, pendingRequests, resolved, taskVars>>

\* The first select of watch(): the first event of the pending stream must be
\* the init event; then pendingWatcherInitialized is closed and retry.Reset() called.
WaitInit(w, evs, errs) ==
    /\ returned' = NoCall
    /\ wPc[w] = "init"
    /\ \/ \E ev \in evs :
            IF ev.type = "init"
            THEN /\ wInit' = [wInit EXCEPT ![w] = TRUE]
                 /\ wPc' = [wPc EXCEPT ![w] = "run"]
                 /\ wErr' = wErr
            ELSE /\ ReturnFromWatch(w, "badparam")
                 /\ wInit' = wInit
       \/ /\ \E err \in errs : ReturnFromWatch(w, err)
          /\ wInit' = wInit
       \/ /\ WatchCtxDone(w)
          /\ ReturnFromWatch(w, "canceled")
          /\ wInit' = wInit
    /\ UNCHANGED <<otherVars, envVars, headlessWatcherClosers, lastStart, nextW, wCluster, wCancel, wPrev,
                   pendingRequests, resolved, taskVars>>

\* A loop that sends the notification itself: it takes the next put event only
\* when the notification of the previous one has ended.
PendingEventInline(w, evs) ==
    /\ returned' = NoCall
    /\ wPc[w] = "run"
    /\ \E ev \in evs :
        IF ev.type # "put"
        THEN UNCHANGED <<wPc, wErr, pendingRequests, resolved, taskVars>>
        ELSE IF ev.name = 0
        THEN /\ ReturnFromWatch(w, "unexpected")
             /\ UNCHANGED <<pendingRequests, resolved, taskVars>>
        ELSE /\ nextT <= MaxTasks
             /\ \A t \in Tasks : tWatch[t] = w => tPc[t] \notin {"acquire", "notify"}
             /\ pendingRequests' = [pendingRequests EXCEPT
                    ![w] = addPendingRequest(pendingRequests[w], ev.name, nextT)]
             /\ resolved' = [resolved EXCEPT ![w] = @ \ {ev.name}]
             /\ tPc' = [tPc EXCEPT ![nextT] = "acquire"]
             /\ tName' = [tName EXCEPT ![nextT] = ev.name]
             /\ tWatch' = [tWatch EXCEPT ![nextT] = w]
             /\ nextT' = nextT + 1
             /\ UNCHANGED <<wPc, wErr, tCancel>>
    /\ UNCHANGED <<otherVars, envVars, headlessWatcherClosers, lastStart, nextW, wCluster, wCancel, wPrev,
                   wInit>>

\* case event := <-pendingWatcher.Events() of the loop of watch()
PendingEvent(w, evs) ==
    /\ returned' = NoCall
    /\ wPc[w] = "run"
    /\ \E ev \in evs :
        IF ev.type # "put"
        THEN UNCHANGED <<wPc, wErr, pendingRequests, resolved, taskVars>>
        ELSE IF ev.name = 0
        THEN /\ ReturnFromWatch(w, "unexpected")
             /\ UNCHANGED <<pendingRequests, resolved, taskVars>>
        ELSE /\ nextT <= MaxTasks
             /\ pendingRequests' = [pendingRequests EXCEPT
                    ![w] = addPendingRequest(pendingRequests[w], ev.name, nextT)]
             /\ resolved' = [resolved EXCEPT ![w] = @ \ {ev.name}]
             /\ tPc' = [tPc EXCEPT ![nextT] = "acquire"]
             /\ tName' = [tName EXCEPT ![nextT] = ev.name]
             /\ tWatch' = [tWatch EXCEPT ![nextT] = w]
             /\ nextT' = nextT + 1
             /\ UNCHANGED <<wPc, wErr, tCancel>>
    /\ UNCHANGED <<otherVars, envVars, headlessWatcherClosers, lastStart, nextW, wCluster, wCancel, wPrev,
                   wInit>>

\* The resolution event ends the request: put with state approved or denied, or delete.
Terminal(ev) ==
    \/ ev.type = "put" /\ ev.name # 0 /\ ev.state \in {"approved", "denied"}
    \/ ev.type = "delete"

\* case event := <-resolutionWatcher.Events() of the loop of watch()
ResolutionEvent(w, evs) ==
    /\ returned' = NoCall
    /\ wPc[w] = "run"
    /\ \E ev \in evs :
        IF ev.type = "put" /\ ev.name = 0
        THEN /\ ReturnFromWatch(w, "unexpected")
             /\ UNCHANGED <<pendingRequests, resolved, tCancel>>
        ELSE IF Terminal(ev)
        THEN /\ tCancel' = cancelPendingRequest(tCancel, pendingRequests[w], ev.name)
             /\ pendingRequests' = [pendingRequests EXCEPT
                    ![w] = cancelPendingRequestMap(pendingRequests[w], ev.name)]
             /\ resolved' = [resolved EXCEPT
                    ![w] = IF pendingRequests[w][ev.name] # 0 THEN @ \cup {ev.name} ELSE @]
             /\ UNCHANGED <<wPc, wErr>>
        ELSE UNCHANGED <<wPc, wErr, pendingRequests, resolved, tCancel>>
    /\ UNCHANGED <<otherVars, envVars, headlessWatcherClosers, lastStart, nextW, wCluster, wCancel, wPrev,
                   wInit, nextT, tPc, tName, tWatch>>

\* case <-pendingWatcher.Done() and case <-resolutionWatcher.Done()
StreamDone(w, errs) ==
    /\ returned' = NoCall
    /\ wPc[w] = "run"
    /\ \E err \in errs : ReturnFromWatch(w, err)
    /\ UNCHANGED <<otherVars, envVars, headlessWatcherClosers, lastStart, nextW, wCluster, wCancel, wPrev,
                   wInit, pendingRequests, resolved, taskVars>>

\* case <-watchCtx.Done(): return nil
LoopCtxDone(w) ==
    /\ returned' = NoCall
    /\ wPc[w] = "run"
    /\ WatchCtxDone(w)
    /\ ReturnFromWatch(w, "nil")
    /\ UNCHANGED <<otherVars, envVars, headlessWatcherClosers, lastStart, nextW, wCluster, wCancel, wPrev,
                   wInit, pendingRequests, resolved, taskVars>>

\* The select after watch(): retry.After() fires and retry.Inc() is called, or
\* watchCtx is done and the goroutine returns.
Backoff(w) ==
    /\ returned' = NoCall
    /\ wPc[w] = "backoff"
    /\ \/ /\ wPc' = [wPc EXCEPT ![w] = "top"]
          /\ wErr' = [wErr EXCEPT ![w] = "none"]
       \/ /\ WatchCtxDone(w)
          /\ wPc' = [wPc EXCEPT ![w] = "exit"]
          /\ wErr' = [wErr EXCEPT ![w] = "ctxdone"]
    /\ UNCHANGED <<otherVars, envVars, headlessWatcherClosers, lastStart, nextW, wCluster, wCancel, wPrev,
                   wInit, pendingRequests, resolved, taskVars>>

\* A deferred function that removes the entry of its cluster whatever its context says.
selfRemovesAlways(w) == TRUE

\* A deferred function that never removes the entry.
selfRemovesNever(w) == FALSE

\* The deferred function of the goroutine: under the mutex, a watcher whose
\* context is not done removes the entry of its cluster.
selfRemoves(w) == ~WatchCtxDone(w)

LoopExit(w) ==
    /\ returned' = NoCall
    /\ wPc[w] = "exit"
    /\ MuFree
    /\ wPc' = [wPc EXCEPT ![w] = "done"]
    /\ IF selfRemoves(w)
       THEN /\ wCancel' = stopHeadlessWatcherCancel(wCancel, headlessWatcherClosers, wCluster[w])
            /\ headlessWatcherClosers' = stopHeadlessWatcherDelete(headlessWatcherClosers, wCluster[w])
       ELSE UNCHANGED <<wCancel, headlessWatcherClosers>>
    /\ UNCHANGED <<otherVars, envVars, lastStart, nextW, wCluster, wPrev, loopVars, taskVars>>

\* ------------------------------------------------- the notification tasks
SemHeld == Cardinality({t \in Tasks : tPc[t] = "notify"})

\* s.importantModalSemaphore.Acquire(ctx): a free slot is taken, or ctx is done.
AcquireResults(t) ==
    (IF SemHeld < SemCapacity THEN {"notify"} ELSE {})
    \cup (IF SendCtxDone(t) THEN {"failed"} ELSE {})

\* A notification that calls the tshd events client without acquiring the semaphore.
TaskAcquireNoSemaphore(t) ==
    /\ returned' = NoCall
    /\ tPc[t] = "acquire"
    /\ tPc' = [tPc EXCEPT ![t] = "notify"]
    /\ UNCHANGED <<otherVars, envVars, headlessWatcherClosers, lastStart, nextW, wPc, wCluster, wCancel, wPrev,
                   loopVars, nextT, tName, tWatch, tCancel>>

\* sendPendingHeadlessAuthentication up to the call of the tshd events client;
\* when Acquire fails the goroutine ends, and its deferred cancelSend runs.
TaskAcquire(t) ==
    /\ returned' = NoCall
    /\ tPc[t] = "acquire"
    /\ \E r \in AcquireResults(t) :
        /\ tPc' = [tPc EXCEPT ![t] = r]
        /\ tCancel' = [tCancel EXCEPT ![t] = IF r = "failed" THEN TRUE ELSE @]
    /\ UNCHANGED <<otherVars, envVars, headlessWatcherClosers, lastStart, nextW, wPc, wCluster, wCancel, wPrev,
                   loopVars, nextT, tName, tWatch>>

\* SendPendingHeadlessAuthentication returns (the approver reacted, the call
\* failed, or ctx is done): the semaphore is released and cancelSend runs.
TaskNotifyReturn(t) ==
    /\ returned' = NoCall
    /\ tPc[t] = "notify"
    /\ tPc' = [tPc EXCEPT ![t] = "done"]
    /\ tCancel' = [tCancel EXCEPT ![t] = TRUE]
    /\ UNCHANGED <<otherVars, envVars, headlessWatcherClosers, lastStart, nextW, wPc, wCluster, wCancel, wPrev,
                   loopVars, nextT, tName, tWatch>>

\* A notification context without a deadline.
TaskDeadlineNever(t) ==
    /\ FALSE
    /\ UNCHANGED vars

\* defaults.HeadlessLoginTimeout passes: the deadline of sendCtx.
TaskDeadline(t) ==
    /\ returned' = NoCall
    /\ tPc[t] \in {"acquire", "notify"}
    /\ ~tCancel[t]
    /\ tCancel' = [tCancel EXCEPT ![t] = TRUE]
    /\ UNCHANGED <<otherVars, envVars, headlessWatcherClosers, lastStart, nextW, wPc, wCluster, wCancel, wPrev,
                   loopVars, nextT, tPc, tName, tWatch>>

\* --------------------------------------------------- HandleMFAGoroutines
\* respC := make(chan MFAGoroutineResponse, 2)
RespCapacity == 2

\* The message of the error returned when every goroutine failed.
FailedToAuthenticate == "failed to authenticate using available MFA devices"

\* An ordinary error of MFA prompt goroutine g.
GoroutineErr(g) == Error("error", g, "", <<>>)

\* wancli.ErrUsingNonRegisteredDevice, reported by goroutine g.
ErrUsingNonRegisteredDevice(g) == Error("nonregistered", g, "", <<>>)

\* errors.Is(err, wancli.ErrUsingNonRegisteredDevice)
IsNonRegistered(err) == err.type = "nonregistered"

\* An aggregate that hands a single error through as it is.
NewAggregateUnlessSingle(es) ==
    IF es = <<>> THEN NilErr
    ELSE IF Len(es) = 1 THEN es[1]
    ELSE Error("aggregate", 0, "", es)

\* trace.NewAggregate(errs...): nil when there is no error to aggregate.
NewAggregate(es) == IF es = <<>> THEN NilErr ELSE Error("aggregate", 0, "", es)

\* trace.Wrap(err, msg): nil when err is nil.
Wrap(err, msg) == IF err = NilErr THEN NilErr ELSE Error("trace", 0, msg, <<err>>)

\* MFAGoroutineResponse{Resp, Err}; the response of goroutine g is named g.
MFAGoroutineResponse(resp, err) == [Resp |-> resp, Err |-> err]

\* What goroutine g can send: its response, an error, or the error of a
\* device that is not registered.
GoroutineResponses(g) ==
    {MFAGoroutineResponse(g, NilErr),
     MFAGoroutineResponse(0, GoroutineErr(g)),
     MFAGoroutineResponse(0, ErrUsingNonRegisteredDevice(g))}

\* A collection that puts the newest error first.
prependErr(es, err) == <<err>> \o es

\* errs = append(errs, err)
appendErr(es, err) == Append(es, err)

\* A loop body that returns the first error of any kind.
rangeBodyFailsFast(es, resp) ==
    IF resp.Err # NilErr
    THEN [pc |-> "selected", errs |-> es, ret |-> Returns(0, Wrap(resp.Err, ""))]
    ELSE [pc |-> "selected", errs |-> es, ret |-> Returns(resp.Resp, NilErr)]

\* A loop body that collects the error of a device that is not registered like any other.
rangeBodyCollectsAll(es, resp) ==
    IF resp.Err # NilErr
    THEN [pc |-> "range", errs |-> appendErr(es, resp.Err), ret |-> NoReturn]
    ELSE [pc |-> "selected", errs |-> es, ret |-> Returns(resp.Resp, NilErr)]

\* The body of "for resp := range respC": where HandleMFAGoroutines goes on,
\* its errs and what it returns.
rangeBody(es, resp) ==
    IF IsNonRegistered(resp.Err)
    THEN [pc |-> "selected", errs |-> es, ret |-> Returns(0, Wrap(resp.Err, ""))]
    ELSE IF resp.Err # NilErr
    THEN [pc |-> "range", errs |-> appendErr(es, resp.Err), ret |-> NoReturn]
    ELSE [pc |-> "selected", errs |-> es, ret |-> Returns(resp.Resp, NilErr)]

\* The return after the loop: respC is closed and drained.
rangeEnd(es) == Returns(0, Wrap(NewAggregate(es), FailedToAuthenticate))

\* wg.Wait() returns: every goroutine that was started has called wg.Done().
wgDone == \A g \in Goroutines : gPc[g] # "run"

\* startGoroutines(ctx, &wg, respC) starts the goroutines of the set gs.
startGoroutines(gs) ==
    /\ hPc = "start"
    /\ hPc' = "range"
    /\ gPc' = [g \in Goroutines |-> IF g \in gs THEN "run" ELSE "none"]
    /\ UNCHANGED <<watcherVars, promptVars, cacheVars, respC, respCClosed, hErrs, mfaCancel, hReturn, sent>>

\* A channel without buffer: a send needs the loop to be waiting at the receive.
respCUnbuffered == hPc = "range" /\ respC = <<>>

\* A send to respC does not block: the buffer of the channel has room.
respCHasRoom == Len(respC) < RespCapacity

\* An MFA prompt goroutine sends its response to respC and ends (wg.Done()).
GoroutineResponse(g) ==
    /\ gPc[g] = "run"
    /\ respCHasRoom
    /\ \E resp \in GoroutineResponses(g) : respC' = Append(respC, resp)
    /\ sent' = Append(sent, g)
    /\ gPc' = [gPc EXCEPT ![g] = "done"]
    /\ UNCHANGED <<watcherVars, promptVars, cacheVars, hPc, respCClosed, hErrs, mfaCancel, hReturn>>

\* go func() { wg.Wait(); close(respC) }()
CloseRespC ==
    /\ hPc # "start"
    /\ ~respCClosed
    /\ wgDone
    /\ respCClosed' = TRUE
    /\ UNCHANGED <<watcherVars, promptVars, cacheVars, hPc, gPc, respC, hErrs, mfaCancel, hReturn, sent>>

\* for resp := range respC: the oldest response is received and handled.
RangeRespC ==
    /\ hPc = "range"
    /\ respC # <<>>
    /\ LET r == rangeBody(hErrs, Head(respC)) IN
         /\ hPc' = r.pc
         /\ hErrs' = r.errs
         /\ hReturn' = r.ret
    /\ respC' = Tail(respC)
    /\ UNCHANGED <<watcherVars, promptVars, cacheVars, gPc, respCClosed, mfaCancel, sent>>

\* The range loop ends: respC is closed and empty.
RangeRespCEnd ==
    /\ hPc = "range"
    /\ respC = <<>>
    /\ respCClosed
    /\ hPc' = "selected"
    /\ hReturn' = rangeEnd(hErrs)
    /\ UNCHANGED <<watcherVars, promptVars, cacheVars, gPc, respC, respCClosed, hErrs, mfaCancel, sent>>

\* The deferred function: cancel()
DeferredCancel ==
    /\ hPc = "selected"
    /\ hPc' = "wait"
    /\ mfaCancel' = TRUE
    /\ UNCHANGED <<watcherVars, promptVars, cacheVars, gPc, respC, respCClosed, hErrs, hReturn, sent>>

\* A deferred function that returns without waiting for the goroutines.
DeferredReturnNoWait ==
    /\ hPc = "wait"
    /\ hPc' = "returned"
    /\ UNCHANGED <<watcherVars, promptVars, cacheVars, gPc, respC, respCClosed, hErrs, mfaCancel, hReturn, sent>>

\* The deferred function: wg.Wait(); then HandleMFAGoroutines returns.
DeferredWait ==
    /\ hPc = "wait"
    /\ wgDone
    /\ hPc' = "returned"
    /\ UNCHANGED <<watcherVars, promptVars, cacheVars, gPc, respC, respCClosed, hErrs, mfaCancel, hReturn, sent>>

\* --------------------------------------------------------- GetRunOptions
\* A platform check that only switches the hardware key prompt off.
platformSupportNoError(c, promptTOTP, promptWebauthn) ==
    [err |-> NilErr, promptTOTP |-> promptTOTP,
     promptWebauthn |-> promptWebauthn /\ c.WebauthnSupported]

\* The first switch of GetRunOptions: does the platform support hardware keys?
platformSupport(c, promptTOTP, promptWebauthn) ==
    IF ~promptTOTP /\ ~c.WebauthnSupported
    THEN [err |-> BadParameter("hardware device MFA not supported by your platform, please register an OTP device"),
          promptTOTP |-> promptTOTP, promptWebauthn |-> promptWebauthn]
    ELSE IF ~c.WebauthnSupported
    THEN [err |-> NilErr, promptTOTP |-> promptTOTP, promptWebauthn |-> FALSE]
    ELSE [err |-> NilErr, promptTOTP |-> promptTOTP, promptWebauthn |-> promptWebauthn]

\* A preference switch that leaves both prompts as they are.
preferenceKeepsBoth(c, promptTOTP, promptWebauthn) == RunOpts(promptTOTP, promptWebauthn)

\* A preference switch that looks at the authenticator attachment first.
preferenceAttachmentFirst(c, promptTOTP, promptWebauthn) ==
    IF promptWebauthn /\ c.AuthenticatorAttachment # AttachmentAuto
    THEN RunOpts(FALSE, promptWebauthn)
    ELSE IF promptTOTP /\ c.PreferOTP
    THEN RunOpts(promptTOTP, FALSE)
    ELSE IF promptWebauthn /\ ~c.AllowStdinHijack
    THEN RunOpts(FALSE, promptWebauthn)
    ELSE RunOpts(promptTOTP, promptWebauthn)

\* The second switch of GetRunOptions: the first case that matches is applied.
preference(c, promptTOTP, promptWebauthn) ==
    IF promptTOTP /\ c.PreferOTP
    THEN RunOpts(promptTOTP, FALSE)
    ELSE IF promptWebauthn /\ c.AuthenticatorAttachment # AttachmentAuto
    THEN RunOpts(FALSE, promptWebauthn)
    ELSE IF promptWebauthn /\ ~c.AllowStdinHijack
    THEN RunOpts(FALSE, promptWebauthn)
    ELSE RunOpts(promptTOTP, promptWebauthn)

\* func (c PromptConfig) GetRunOptions(ctx, chal) (RunOpts, error)
GetRunOptions(c, ch) ==
    LET promptTOTP == ch.TOTP
        promptWebauthn == ch.WebauthnChallenge
    IN IF ~promptTOTP /\ ~promptWebauthn
       THEN RunOptsReturn(RunOpts(FALSE, FALSE), BadParameter("mfa challenge is empty"))
       ELSE LET s == platformSupport(c, promptTOTP, promptWebauthn)
            IN IF s.err # NilErr
               THEN RunOptsReturn(RunOpts(FALSE, FALSE), s.err)
               ELSE RunOptsReturn(preference(c, s.promptTOTP, s.promptWebauthn), NilErr)

\* The call c.GetRunOptions(ctx, chal) of the prompt.
CallGetRunOptions ==
    /\ runOpts = NotCalled
    /\ runOpts' = GetRunOptions(promptConfig, chal)
    /\ UNCHANGED <<watcherVars, mfaVars, cacheVars, promptConfig, chal>>

\* -------------------------------------------------------------- Cache.Get
\* The certificate in tbot's memory changes (tbot renews it).
SetCert(b) ==
    /\ certGen < MaxRotations
    /\ b # cert
    /\ cert' = b
    /\ certGen' = certGen + 1
    /\ UNCHANGED <<watcherVars, mfaVars, promptVars, mutex, cachedCert, cachedClient, clientState,
                   buildLog, cPc, cCert, cGen, cRaced, cRet>>

\* The callers that are inside Get.
InGet == {p \in Callers : cPc[p] \in {"lock", "locked", "build"}}

\* The callers that hold the usage lock of client k: Get returned k to them and
\* they have not called the release function.
Holders(k) == {p \in Callers : cPc[p] = "holding" /\ cRet[p].client = k}

\* A caller calls Get: c.mutex.Lock() is reached.
GetCall(p) ==
    /\ cPc[p] = "idle"
    /\ Len(buildLog) + Cardinality(InGet) < MaxBuilds
    /\ cPc' = [cPc EXCEPT ![p] = "lock"]
    /\ cRaced' = [cRaced EXCEPT ![p] = mutex]
    /\ cRet' = [cRet EXCEPT ![p] = NoGet]
    /\ UNCHANGED <<watcherVars, mfaVars, promptVars, cert, certGen, mutex, cachedCert, cachedClient,
                   clientState, buildLog, cCert, cGen>>

\* A lock that is granted whether it is held or not.
mutexIgnored == TRUE

\* c.mutex.Lock() returns when the mutex is not locked.
mutexFree == ~mutex

GetLock(p) ==
    /\ cPc[p] = "lock"
    /\ mutexFree
    /\ mutex' = TRUE
    /\ cPc' = [cPc EXCEPT ![p] = "locked"]
    /\ UNCHANGED <<watcherVars, mfaVars, promptVars, cert, certGen, cachedCert, cachedClient,
                   clientState, buildLog, cCert, cGen, cRaced, cRet>>

\* What certGetter() returns: the bytes in memory, or an error.
CertGetterResults == {[cert |-> cert, err |-> NilErr], [cert |-> NilCert, err |-> CertGetterErr]}

\* A check that takes only the nil slice for a missing certificate.
noCertificateNilOnly(b) == b = NilCert

\* cert == nil || len(cert) == 0
noCertificate(b) == b = NilCert \/ CertLen(b) = 0

\* A cache that is never hit.
cacheHitNever(client, cached, b) == FALSE

\* A cache that is hit whenever it holds a client.
cacheHitAnyCert(client, cached, b) == client # 0

\* c.cachedClient != nil && bytes.Equal(cert, c.cachedCert)
cacheHit(client, cached, b) == client # 0 /\ BytesEqual(b, cached)

\* Get returns: the deferred c.mutex.Unlock() runs and the caller has the result.
GetReturns(p, pc, ret) ==
    /\ cPc' = [cPc EXCEPT ![p] = pc]
    /\ cRet' = [cRet EXCEPT ![p] = ret]
    /\ mutex' = FALSE

\* cert, err := c.certGetter(), the two checks of cert and the cache hit.
GetCert(p) ==
    /\ cPc[p] = "locked"
    /\ \E r \in CertGetterResults :
         /\ cCert' = [cCert EXCEPT ![p] = r.cert]
         /\ cGen' = [cGen EXCEPT ![p] = certGen]
         /\ IF r.err # NilErr
            THEN GetReturns(p, "idle", GetReturn(0, FALSE, Wrap(r.err, "")))
            ELSE IF noCertificate(r.cert)
            THEN GetReturns(p, "idle", GetReturn(0, FALSE,
                     CompareFailed("no certificate in tbot's memory, cannot compare")))
            ELSE IF cacheHit(cachedClient, cachedCert, r.cert)
            THEN GetReturns(p, "holding", GetReturn(cachedClient, TRUE, NilErr))
            ELSE /\ cPc' = [cPc EXCEPT ![p] = "build"]
                 /\ UNCHANGED <<mutex, cRet>>
    /\ UNCHANGED <<watcherVars, mfaVars, promptVars, cert, certGen, cachedCert, cachedClient,
                   clientState, buildLog, cRaced>>

\* A replacement that retires the old client only when no caller holds it.
retireOldUnlessHeld(states, old) ==
    IF old # 0 /\ Holders(old) = {} THEN [states EXCEPT ![old] = "retiring"] ELSE states

\* A replacement that leaves the old client as it is.
retireOldNever(states, old) == states

\* if oldClient != nil { go oldClient.RetireClient() }
retireOld(states, old) == IF old # 0 THEN [states EXCEPT ![old] = "retiring"] ELSE states

\* A rebuild that stores the certificate before it looks at the error of the builder.
GetBuildStoresFirst(p) ==
    /\ cPc[p] = "build"
    /\ cachedCert' = cCert[p]
    /\ \E ok \in BOOLEAN :
         LET k == Len(buildLog) + 1 IN
         IF ok
         THEN /\ buildLog' = Append(buildLog, [gen |-> cGen[p], client |-> k])
              /\ cachedClient' = k
              /\ clientState' = [retireOld(clientState, cachedClient) EXCEPT ![k] = "open"]
              /\ GetReturns(p, "holding", GetReturn(k, TRUE, NilErr))
         ELSE /\ buildLog' = Append(buildLog, [gen |-> cGen[p], client |-> 0])
              /\ GetReturns(p, "idle", GetReturn(0, FALSE, Wrap(ClientBuilderErr, "")))
              /\ UNCHANGED <<cachedClient, clientState>>
    /\ UNCHANGED <<watcherVars, mfaVars, promptVars, cert, certGen, cCert, cGen, cRaced>>

\* freshClient, err := c.clientBuilder(ctx) and what follows it: the error is
\* returned, or the client is stored with the certificate that was read, the
\* old client is retired in a goroutine and the new client is returned.
GetBuild(p) ==
    /\ cPc[p] = "build"
    /\ \E ok \in BOOLEAN :
         LET k == Len(buildLog) + 1 IN
         IF ok
         THEN /\ buildLog' = Append(buildLog, [gen |-> cGen[p], client |-> k])
              /\ cachedCert' = cCert[p]
              /\ cachedClient' = k
              /\ clientState' = [retireOld(clientState, cachedClient) EXCEPT ![k] = "open"]
              /\ GetReturns(p, "holding", GetReturn(k, TRUE, NilErr))
         ELSE /\ buildLog' = Append(buildLog, [gen |-> cGen[p], client |-> 0])
              /\ GetReturns(p, "idle", GetReturn(0, FALSE, Wrap(ClientBuilderErr, "")))
              /\ UNCHANGED <<cachedCert, cachedClient, clientState>>
    /\ UNCHANGED <<watcherVars, mfaVars, promptVars, cert, certGen, cCert, cGen, cRaced>>

\* The caller calls the release function Get gave it.
Release(p) ==
    /\ cPc[p] = "holding"
    /\ cPc' = [cPc EXCEPT ![p] = "idle"]
    /\ UNCHANGED <<watcherVars, mfaVars, promptVars, cert, certGen, mutex, cachedCert, cachedClient,
                   clientState, buildLog, cCert, cGen, cRaced, cRet>>

\* A retirement that does not wait for the usage locks.
retireReadyAlways(k) == TRUE

\* RetireClient gets the client to itself once every usage lock is released.
retireReady(k) == Holders(k) = {}

\* oldClient.RetireClient() closes the client.
RetireClient(k) ==
    /\ clientState[k] = "retiring"
    /\ retireReady(k)
    /\ clientState' = [clientState EXCEPT ![k] = "closed"]
    /\ UNCHANGED <<watcherVars, mfaVars, promptVars, cert, certGen, mutex, cachedCert, cachedClient,
                   buildLog, cPc, cCert, cGen, cRaced, cRet>>

\* ------------------------------------------------------- the retry object
\* The retry object of a watch is local to the goroutine of that watch and is
\* read by nothing but the select after watch(). It is followed here for one
\* watch on its own, through the steps of its goroutine that touch it; time is
\* counted in whole seconds.

\* maxBackoffDuration := defaults.MaxWatcherBackoff, in seconds
MaxWatcherBackoff == 90

\* Step: maxBackoffDuration / 5
LinearStep == MaxWatcherBackoff \div 5

Min(a, b) == IF a < b THEN a ELSE b

\* utils.FullJitter(d): a random duration in [0, d)
FullJitter(d) == 0..(d - 1)

\* The jitter of retryutils.NewHalfJitter(): a random duration in [d/2, d)
HalfJitter(d) == (d \div 2)..d

\* The delay of the retry object before jitter: First, grown by Step per
\* attempt, with Max as its ceiling.
LinearDuration(f, a) == Min(f + a * LinearStep, MaxWatcherBackoff)

\* retry.Reset()
LinearReset(a) == 0

\* retry.Inc()
LinearInc(a) == a + 1

\* retryutils.NewLinear(...) in startHeadlessWatcher: First is drawn once.
NewLinear ==
    /\ rPc = "none"
    /\ \E f \in FullJitter(MaxWatcherBackoff \div 10) : first' = f
    /\ attempt' = 0
    /\ restarts' = 0
    /\ rPc' = "top"
    /\ UNCHANGED <<registryVars, mfaVars, promptVars, cacheVars, waited>>

\* Top of the loop of the goroutine: it returns when the cluster is not
\* connected, and calls watch() otherwise.
RetryLoopTop ==
    /\ rPc = "top"
    /\ \E isConnected \in BOOLEAN : rPc' = IF isConnected THEN "watch" ELSE "exit"
    /\ UNCHANGED <<registryVars, mfaVars, promptVars, cacheVars, first, attempt, restarts, waited>>

\* watch() returns before the init event: a stream did not open, the pending
\* stream ended or its first event was not the init event, or watchCtx is done.
RetryWatchFails ==
    /\ rPc = "watch"
    /\ \E err \in StreamErrors \cup {"badparam", "ctxdone"} :
          rPc' = IF afterWatch(err) = "exit" THEN "exit" ELSE "select"
    /\ UNCHANGED <<registryVars, mfaVars, promptVars, cacheVars, first, attempt, restarts, waited>>

\* An init event that leaves the retry object as it is.
RetryInitEventNoReset ==
    /\ rPc = "watch"
    /\ rPc' = "run"
    /\ restarts' = 0
    /\ UNCHANGED <<registryVars, mfaVars, promptVars, cacheVars, first, attempt, waited>>

\* The pending stream delivers the init event: retry.Reset() and the loop of watch().
RetryInitEvent ==
    /\ rPc = "watch"
    /\ rPc' = "run"
    /\ attempt' = LinearReset(attempt)
    /\ restarts' = 0
    /\ UNCHANGED <<registryVars, mfaVars, promptVars, cacheVars, first, waited>>

\* watch() returns from its loop: a stream ended, an event had an unexpected
\* resource, or watchCtx is done.
RetryWatchReturns ==
    /\ rPc = "run"
    /\ \E err \in StreamErrors \cup {"unexpected", "nil"} :
          rPc' = IF afterWatch(err) = "exit" THEN "exit" ELSE "select"
    /\ UNCHANGED <<registryVars, mfaVars, promptVars, cacheVars, first, attempt, restarts, waited>>

\* case t := <-retry.After(): the delay of the retry object has passed;
\* retry.Inc() and the next iteration of the loop.
RetryAfter ==
    /\ rPc = "select"
    /\ attempt < MaxAttempts
    /\ waited' \in HalfJitter(LinearDuration(first, attempt))
    /\ attempt' = LinearInc(attempt)
    /\ restarts' = restarts + 1
    /\ rPc' = "top"
    /\ UNCHANGED <<registryVars, mfaVars, promptVars, cacheVars, first>>

\* case <-watchCtx.Done() of the select after watch(): the goroutine returns.
RetryCtxDone ==
    /\ rPc = "select"
    /\ rPc' = "exit"
    /\ UNCHANGED <<registryVars, mfaVars, promptVars, cacheVars, first, attempt, restarts, waited>>

\* ----------------------------------------------------------- specification
\* The calls of the service.
Calls ==
    \/ \E c \in Clusters, waitInit \in BOOLEAN : StartHeadlessWatcher(c, waitInit)
    \/ StartHeadlessWatcherReturn
    \/ StartHeadlessWatchers
    \/ \E c \in Clusters : StopHeadlessWatcher(c)
    \/ StopHeadlessWatchers

\* The goroutine of a watch, with every event and every error the backend can produce.
Loop ==
    \/ \E w \in Watches : LoopTop(w, StreamErrors)
    \/ \E w \in Watches : WaitInit(w, PendingStreamEvents, StreamErrors)
    \/ \E w \in Watches : PendingEvent(w, PendingStreamEvents)
    \/ \E w \in Watches : ResolutionEvent(w, ResolutionStreamEvents)
    \/ \E w \in Watches : StreamDone(w, StreamErrors)
    \/ \E w \in Watches : LoopCtxDone(w)
    \/ \E w \in Watches : Backoff(w)
    \/ \E w \in Watches : LoopExit(w)

\* The notification goroutines.
Notify ==
    \/ \E t \in Tasks : TaskAcquire(t)
    \/ \E t \in Tasks : TaskNotifyReturn(t)
    \/ \E t \in Tasks : TaskDeadline(t)

Environment ==
    \/ \E c \in Clusters, b \in BOOLEAN : SetConnected(c, b)
    \/ CloseService

\* The prompt of an MFA challenge.
Prompt ==
    \/ \E gs \in SUBSET Goroutines : startGoroutines(gs)
    \/ \E g \in Goroutines : GoroutineResponse(g)
    \/ CloseRespC
    \/ RangeRespC
    \/ RangeRespCEnd
    \/ DeferredCancel
    \/ DeferredWait
    \/ CallGetRunOptions

\* The client cache, its callers and the certificate it follows.
CacheGet ==
    \/ \E b \in CertValues : SetCert(b)
    \/ \E p \in Callers : GetCall(p)
    \/ \E p \in Callers : GetLock(p)
    \/ \E p \in Callers : GetCert(p)
    \/ \E p \in Callers : GetBuild(p)
    \/ \E p \in Callers : Release(p)
    \/ \E k \in Clients : RetireClient(k)

\* The retry object of a watch.
Retry ==
    \/ NewLinear
    \/ RetryLoopTop
    \/ RetryWatchFails
    \/ RetryInitEvent
    \/ RetryWatchReturns
    \/ RetryAfter
    \/ RetryCtxDone

Next == Calls \/ Loop \/ Notify \/ Environment \/ Prompt \/ CacheGet \/ Retry

\* The whole service.
Spec == Init /\ [][Next]_vars

\* The registry and the watch goroutines, with every call, every stream error and
\* every change of the connection, while no headless login is attempted. The
\* registry and the goroutines of the watches never read the state of a
\* notification goroutine, so their behaviours are those of Spec.
QuietLoop ==
    \/ \E w \in Watches : LoopTop(w, StreamErrors)
    \/ \E w \in Watches : WaitInit(w, PendingStreamEvents, StreamErrors)
    \/ \E w \in Watches : PendingEvent(w, QuietPendingStreamEvents)
    \/ \E w \in Watches : ResolutionEvent(w, ResolutionStreamEvents)
    \/ \E w \in Watches : StreamDone(w, StreamErrors)
    \/ \E w \in Watches : LoopCtxDone(w)
    \/ \E w \in Watches : Backoff(w)
    \/ \E w \in Watches : LoopExit(w)

NextWatch == Calls \/ QuietLoop \/ Environment

SpecWatch == Init /\ [][NextWatch]_vars

\* The notifications: every call that does not wait for the init event, every
\* event of the two streams and the notification goroutines, on connected
\* clusters whose backend keeps its streams up.
InitNotify == Init /\ \A c \in Clusters : connected[c]

SteadyCalls ==
    \/ \E c \in Clusters : StartHeadlessWatcher(c, FALSE)
    \/ StartHeadlessWatchers
    \/ \E c \in Clusters : StopHeadlessWatcher(c)
    \/ StopHeadlessWatchers

SteadyLoop ==
    \/ \E w \in Watches : LoopTop(w, NoErrors)
    \/ \E w \in Watches : WaitInit(w, InitEvents, NoErrors)
    \/ \E w \in Watches : PendingEvent(w, PendingStreamEvents)
    \/ \E w \in Watches : ResolutionEvent(w, ResolutionStreamEvents)
    \/ \E w \in Watches : LoopCtxDone(w)
    \/ \E w \in Watches : Backoff(w)
    \/ \E w \in Watches : LoopExit(w)

NextNotify == SteadyCalls \/ SteadyLoop \/ Notify \/ CloseService

SpecNotify == InitNotify /\ [][NextNotify]_vars

\* The notifications under the scheduling of the runtime: time passes, so the
\* deadline of a notification context is reached; a goroutine blocked in Acquire
\* runs when a slot is free or its context is done; the call of the tshd events
\* client returns once its context is done. Nothing makes the approver react,
\* a resolution event arrive or a watch stop.
TimerLoop ==
    \/ \E c \in Clusters : StartHeadlessWatcher(c, FALSE)
    \/ \E w \in Watches : LoopTop(w, NoErrors)
    \/ \E w \in Watches : WaitInit(w, InitEvents, NoErrors)
    \/ \E w \in Watches : PendingEvent(w, PendingStreamEvents)
    \/ \E w \in Watches : ResolutionEvent(w, ResolutionStreamEvents)

NextTimer == TimerLoop \/ Notify \/ CloseService

TimerFairness ==
    \A t \in Tasks :
        /\ WF_vars(TaskDeadline(t))
        /\ WF_vars(TaskAcquire(t))
        /\ WF_vars(TaskNotifyReturn(t) /\ SendCtxDone(t))

SpecTimer == InitNotify /\ [][NextTimer]_vars /\ TimerFairness

\* One call of HandleMFAGoroutines with any set of goroutines and any responses.
NextMFA ==
    \/ \E gs \in SUBSET Goroutines : startGoroutines(gs)
    \/ \E g \in Goroutines : GoroutineResponse(g)
    \/ CloseRespC
    \/ RangeRespC
    \/ RangeRespCEnd
    \/ DeferredCancel
    \/ DeferredWait

SpecMFA == InitNotify /\ [][NextMFA]_vars

\* GetRunOptions on every prompt configuration and every challenge.
InitRunOpts ==
    /\ InitService
    /\ \A c \in Clusters : connected[c]
    /\ promptConfig \in PromptConfigs
    /\ chal \in Challenges
    /\ runOpts = NotCalled
    /\ InitCache
    /\ InitRetry

SpecRunOpts == InitRunOpts /\ [][CallGetRunOptions]_vars

\* The client cache with any number of Get calls of its callers, every result
\* of certGetter and clientBuilder and every change of the certificate.
SpecCache == InitNotify /\ [][CacheGet]_vars

\* The client cache under the scheduling of the runtime: the goroutine of
\* RetireClient runs, and a caller that holds a client releases it.
CacheFairness ==
    /\ \A k \in Clients : WF_vars(RetireClient(k))
    /\ \A p \in Callers : WF_vars(Release(p))

SpecCacheFair == SpecCache /\ CacheFairness

\* HandleMFAGoroutines under the scheduling of the runtime, with goroutines
\* that each send their one response.
MFAFairness ==
    /\ \A g \in Goroutines : WF_vars(GoroutineResponse(g))
    /\ WF_vars(CloseRespC)
    /\ WF_vars(RangeRespC)
    /\ WF_vars(RangeRespCEnd)
    /\ WF_vars(DeferredCancel)
    /\ WF_vars(DeferredWait)

SpecMFAFair == SpecMFA /\ MFAFairness

\* ------------------------------------------------------------------ claims
InFlight(t) == tPc[t] \in {"acquire", "notify"}
Started(w) == wPc[w] # "none"
Registered(w) == Started(w) /\ headlessWatcherClosers[wCluster[w]] = w
Replaced(w) == Started(w) /\ headlessWatcherClosers[wCluster[w]] \notin {0, w}

\* C1: once a terminal resolution event (put approved or denied, or delete) of
\* a request name has been processed after the pending event of that name, the
\* pendingRequests map of the watch holds no entry for the name.
C1_RegistryCleared ==
    \A w \in Watches : \A n \in resolved[w] : pendingRequests[w][n] = 0

\* C2: for every request name of a cluster the approver notification
\* (sendPendingHeadlessAuthentication reaching the call of the tshd events
\* client) is invoked at most once.
C2_NotifiedOnce ==
    \A t1, t2 \in Tasks :
        (/\ tPc[t1] \in {"notify", "done"}
         /\ tPc[t2] \in {"notify", "done"}
         /\ wCluster[tWatch[t1]] = wCluster[tWatch[t2]]
         /\ tName[t1] = tName[t2])
        => t1 = t2

\* C3: once the loop of a watch has processed a terminal resolution event of a
\* name after the pending event of that name, the context of the notification
\* that pending event started is done, whether the notification waits for the
\* semaphore or is inside the call.
C3_ResolutionCancels ==
    \A t \in Tasks :
        (tPc[t] # "none" /\ tName[t] \in resolved[tWatch[t]]) => SendCtxDone(t)

\* C4 as stated: after a watch has been stopped (Stop, StopAll, replacement by
\* Start), the context of every notification of that watch still in flight is done.
C4_StopReachesTasks ==
    \A t \in Tasks : (InFlight(t) /\ wCancel[tWatch[t]]) => SendCtxDone(t)

\* C4 as amended: a step that stops a watch cancels the context of the watch
\* and leaves the context of every notification of that watch as it was: the
\* notifications derive from the close context of the service, not from the watch.
C4_StopLeavesTasks ==
    [][\A w \in Watches :
         (~wCancel[w] /\ wCancel'[w]) =>
            /\ WatchCtxDone(w)'
            /\ \A t \in Tasks :
                 (InFlight(t) /\ tWatch[t] = w) => (SendCtxDone(t)' = SendCtxDone(t))]_vars

\* A stopped watch with a notification inside the call whose context is not done.
C4_Witness ==
    \E t \in Tasks : tPc[t] = "notify" /\ wCancel[tWatch[t]] /\ ~SendCtxDone(t)

\* C6 as stated: once the new watch of a cluster is registered, the loop of the
\* watch it replaced processes no further pending or resolution event and
\* starts no further notification.
C6_PriorQuiesced ==
    [][\A w \in Watches :
         Replaced(w) =>
            /\ pendingRequests'[w] = pendingRequests[w]
            /\ resolved'[w] = resolved[w]
            /\ \A t \in Tasks : (tPc[t] = "none" /\ tPc'[t] # "none") => tWatch'[t] # w]_vars

\* C6 as amended: when a watch is registered for a cluster, the context of every
\* other watch of that cluster whose goroutine still runs is done (cancelled
\* before the new watch was registered); the replaced loop is not waited for.
C6_PriorCancelled ==
    \A w \in Watches :
        (Started(w) /\ wPc[w] # "done" /\ ~Registered(w)) => WatchCtxDone(w)

\* The replaced watch is still in its loop while the watch that replaced it is registered.
C6_Witness ==
    \E w \in Watches :
        /\ wPc[w] = "run"
        /\ Replaced(w)
        /\ wPrev[headlessWatcherClosers[wCluster[w]]] = w

\* C5: the registry holds at most one watch per cluster, and only a watch of
\* that cluster whose own cancel function was not invoked; a step that puts a
\* watch into the registry puts a new watch of that cluster there and has
\* invoked the cancel function of the watch it replaced; when a Start call
\* returns nil the registry entry of the cluster is the watch it created and
\* the context of the watch it replaced is done.
C5_IdempotentReplace ==
    [][/\ \A c \in Clusters :
            LET w == headlessWatcherClosers'[c] IN
            w # 0 =>
              /\ wPc'[w] # "none" /\ wCluster'[w] = c /\ ~wCancel'[w]
              /\ \A d \in Clusters : headlessWatcherClosers'[d] = w => d = c
              /\ w # headlessWatcherClosers[c] =>
                   /\ wPc[w] = "none"
                   /\ wPrev'[w] = headlessWatcherClosers[c]
                   /\ headlessWatcherClosers[c] # 0 => wCancel'[headlessWatcherClosers[c]]
       /\ (lastStart' # lastStart /\ lastStart'.ret = "ok") =>
            LET w == lastStart'.w IN
            /\ headlessWatcherClosers'[wCluster'[w]] = w
            /\ wPrev'[w] # 0 => (wCancel'[wPrev'[w]] /\ wCluster'[wPrev'[w]] = wCluster'[w])]_vars

\* A Start call has returned nil for a cluster that had a watch: the new watch
\* is the entry of the cluster and the cancel function of the old one was invoked.
C5_Witness ==
    LET w == lastStart.w IN
    /\ lastStart.ret = "ok"
    /\ wPrev[w] # 0
    /\ headlessWatcherClosers[wCluster[w]] = w
    /\ wCancel[wPrev[w]]
    /\ ~wCancel[w]

\* C7: a StartHeadlessWatcher call with waitInit returns nil only when the
\* pending stream of the watch it created has delivered the init event, and
\* returns an error only when the context of that watch is done; a call
\* without waitInit returns nil at once.
C7_WaitInit ==
    /\ (lastStart.wait /\ lastStart.ret = "ok") => wInit[lastStart.w]
    /\ lastStart.ret = "err" => (lastStart.wait /\ WatchCtxDone(lastStart.w))
    /\ (lastStart.w # 0 /\ ~lastStart.wait) => lastStart.ret = "ok"
    /\ lastStart.ret = "waiting" => lastStart.wait

\* A Start call that waited has returned nil, the init event delivered.
C7_Witness ==
    lastStart.wait /\ lastStart.ret = "ok" /\ wInit[lastStart.w]

\* C8 as stated: a watcher whose goroutine has ended because the backend
\* reported not-implemented or because the cluster was not connected is not the
\* registry entry of its cluster any more.
C8_SelfRemoval ==
    \A w \in Watches :
        (wPc[w] = "done" /\ wErr[w] \in {"notimpl", "disconnected"})
        => headlessWatcherClosers[wCluster[w]] # w

\* C8 as amended: the same, as long as the close context of the service is not
\* cancelled: the deferred function removes the entry only when the context of
\* the watch, a child of the close context, is not done when it runs.
C8_SelfRemovalUnlessClosed ==
    \A w \in Watches :
        (wPc[w] = "done" /\ wErr[w] \in {"notimpl", "disconnected"} /\ ~closeContext)
        => headlessWatcherClosers[wCluster[w]] # w

\* The goroutine of a watch has ended on not-implemented while the service
\* runs, and the cluster has no entry.
C8_Witness ==
    \E w \in Watches :
        /\ wPc[w] = "done" /\ wErr[w] = "notimpl"
        /\ ~closeContext
        /\ headlessWatcherClosers[wCluster[w]] = 0

\* C9: once watch() has returned the not-implemented error the goroutine is at
\* its return or has ended: it waits for no backoff and opens no stream again.
C9_NotImplementedFinal ==
    [][\A w \in Watches :
         /\ wErr[w] = "notimpl" => wPc[w] \in {"exit", "done"}
         /\ wErr'[w] = "notimpl" => wPc'[w] \in {"exit", "done"}]_vars

\* The goroutine of a watch has ended on not-implemented.
C9_Witness ==
    \E w \in Watches : wErr[w] = "notimpl" /\ wPc[w] = "done"

\* C10 as stated: after the first event of the pending stream was not the init
\* event the goroutine returns: the watch is not re-established.
C10_NonInitFatal ==
    \A w \in Watches : wErr[w] = "badparam" => wPc[w] \in {"exit", "done"}

\* C10 as amended: the error ends the current call of watch() only. The
\* goroutine goes to the backoff select like after any other error, keeps its
\* registration unless its context is done, and leaves the select either to
\* open the streams again or, its context done, to return.
C10_NonInitRetried ==
    [][\A w \in Watches :
         /\ wErr'[w] = "badparam" =>
               /\ wPc'[w] = "backoff"
               /\ (Registered(w)' \/ WatchCtxDone(w)')
         /\ (wErr[w] = "badparam" /\ wPc'[w] # wPc[w]) =>
               \/ wPc'[w] = "top"
               \/ wPc'[w] = "exit" /\ WatchCtxDone(w)]_vars

\* A registered watch whose context is not done waits in the backoff select
\* after a first event that was not the init event.
C10_Witness ==
    \E w \in Watches :
        /\ wErr[w] = "badparam" /\ wPc[w] = "backoff"
        /\ Registered(w) /\ ~WatchCtxDone(w)

\* C11: a transient stream error (an open that fails, a stream that ends with
\* an error other than not-implemented), before or after the init event, leaves
\* the registry and the result of the Start call as they are and sends the
\* goroutine to the backoff select; the goroutine leaves that select to open the
\* streams again, or to return when its context is done, and meanwhile the
\* watch stays registered unless its context is done.
C11_TransientRetried ==
    [][\A w \in Watches :
         /\ (wErr[w] # "transient" /\ wErr'[w] = "transient") =>
               /\ lastStart' = lastStart
               /\ headlessWatcherClosers' = headlessWatcherClosers
               /\ wCancel' = wCancel
         /\ wErr'[w] = "transient" =>
               /\ wPc'[w] = "backoff"
               /\ (Registered(w)' \/ WatchCtxDone(w)')
               /\ (lastStart'.w = w /\ lastStart'.ret = "err") => WatchCtxDone(w)'
         /\ (wErr[w] = "transient" /\ wPc'[w] # wPc[w]) =>
               \/ wPc'[w] = "top"
               \/ wPc'[w] = "exit" /\ WatchCtxDone(w)]_vars

\* An initialised, registered watch whose context is not done waits in the
\* backoff select after a transient error.
C11_Witness ==
    \E w \in Watches :
        /\ wErr[w] = "transient" /\ wPc[w] = "backoff" /\ wInit[w]
        /\ Registered(w) /\ ~WatchCtxDone(w)

\* C12: a StopHeadlessWatcher call for a cluster with a registry entry invokes
\* the cancel function of that watch, deletes the entry and returns nil; for a
\* cluster without an entry it returns NotFound and changes neither the
\* registry nor any watch. In both cases the entries and the cancel functions
\* of the other clusters stay as they are.
C12_Stop ==
    [][\A c \in Clusters :
         (returned'.op = "StopHeadlessWatcher" /\ returned'.uri = c) =>
            LET w == headlessWatcherClosers[c] IN
            /\ \A d \in Clusters \ {c} : headlessWatcherClosers'[d] = headlessWatcherClosers[d]
            /\ \A v \in Watches \ {w} : wCancel'[v] = wCancel[v]
            /\ wPc' = wPc
            /\ IF w # 0
               THEN /\ returned'.err = "nil"
                    /\ wCancel'[w]
                    /\ headlessWatcherClosers'[c] = 0
               ELSE /\ returned'.err = "notfound"
                    /\ headlessWatcherClosers' = headlessWatcherClosers
                    /\ wCancel' = wCancel]_vars

\* A StopHeadlessWatcher call has returned NotFound while the watch of
\* another cluster is registered, its cancel function not invoked.
C12_Witness ==
    /\ returned.op = "StopHeadlessWatcher" /\ returned.err = "notfound"
    /\ \E w \in Watches : Registered(w) /\ ~wCancel[w] /\ wCluster[w] # returned.uri

C14_StopAll ==
    [][returned'.op = "StopHeadlessWatchers" =>
         /\ returned'.err = "nil"
         /\ \A c \in Clusters :
              /\ headlessWatcherClosers'[c] = 0
              /\ headlessWatcherClosers[c] # 0 => wCancel'[headlessWatcherClosers[c]]
         /\ \A w \in Watches :
              (\A c \in Clusters : headlessWatcherClosers[c] # w) => wCancel'[w] = wCancel[w]
         /\ wPc' = wPc]_vars

\* A StopHeadlessWatchers call has returned and the loops of two watches of
\* different clusters, their cancel functions invoked, still run.
C14_Witness ==
    /\ returned.op = "StopHeadlessWatchers"
    /\ \E v, w \in Watches :
          /\ wCluster[v] # wCluster[w]
          /\ wCancel[v] /\ wCancel[w]
          /\ wPc[v] = "run" /\ wPc[w] = "run"

\* C15: the notification goroutines inside the call of the tshd events client,
\* over all watches and clusters, are never more than the semaphore has slots,
\* and a goroutine enters the call only from Acquire, taking a slot that was free.
C15_SemaphoreBound ==
    [][/\ SemHeld' <= SemCapacity
       /\ \A t \in Tasks :
            (tPc[t] # "notify" /\ tPc'[t] = "notify") =>
               /\ tPc[t] = "acquire"
               /\ SemHeld < SemCapacity
               /\ SemHeld' = SemHeld + 1]_vars

\* The semaphore is full: one notification is inside the call and another,
\* of a watch of another cluster, waits in Acquire, its context not done.
C15_Witness ==
    \E t, u \in Tasks :
        /\ tPc[t] = "notify" /\ tPc[u] = "acquire" /\ ~SendCtxDone(u)
        /\ SemHeld = SemCapacity
        /\ wCluster[tWatch[t]] # wCluster[tWatch[u]]

\* C16: every notification goroutine that was started ends, and with it the
\* hold on its semaphore slot, even when no resolution event arrives, the
\* approver never reacts and no watch is stopped: the deadline of its context
\* sees to it.
C16_TimerBounds ==
    \A t \in Tasks : InFlight(t) ~> ~InFlight(t)

\* A notification is inside the call, holding the slot, and its context is
\* done by its deadline alone: no resolution was processed, the service runs.
C16_Witness ==
    \E t \in Tasks :
        /\ tPc[t] = "notify" /\ tCancel[t]
        /\ tName[t] \notin resolved[tWatch[t]]
        /\ ~closeContext

\* HandleMFAGoroutines has chosen what it returns.
Selected == hPc \in {"selected", "wait", "returned"}

\* The error is the one returned when every goroutine failed: the aggregate of
\* the collected errors under the message of HandleMFAGoroutines.
IsAggregateFailure(err) ==
    /\ err.type = "trace" /\ err.msg = FailedToAuthenticate
    /\ err.inner[1].type = "aggregate"

\* The error is the error of a device that is not registered, as a goroutine sent it.
IsNonRegisteredFailure(err) ==
    err.type = "trace" /\ err.msg = "" /\ IsNonRegistered(err.inner[1])

\* C17: for any set of goroutines, the empty set included, and any responses,
\* what HandleMFAGoroutines returns is exactly one of: a response and no error;
\* no response and the aggregate failure; no response and the error of a device
\* that is not registered. It is never a response with an error, and never
\* neither.
C17_ExactlyOneOutcome ==
    Selected =>
        \/ hReturn.resp # 0 /\ hReturn.err = NilErr
        \/ hReturn.resp = 0 /\ IsAggregateFailure(hReturn.err)
        \/ hReturn.resp = 0 /\ IsNonRegisteredFailure(hReturn.err)

\* C18: when HandleMFAGoroutines receives the error of a device that is not
\* registered it leaves the loop with that error alone as its result, whatever
\* errors it collected before and whatever the other goroutine is doing; what it
\* has chosen to return does not change afterwards.
C18_NonRegisteredImmediate ==
    [][/\ (/\ hPc = "range" /\ respC # <<>> /\ respC' = Tail(respC)
           /\ IsNonRegistered(Head(respC).Err))
          => /\ hPc' = "selected"
             /\ hReturn' = Returns(0, Wrap(Head(respC).Err, ""))
             /\ IsNonRegisteredFailure(hReturn'.err)
             /\ hErrs' = hErrs
       /\ Selected => (Selected' /\ hReturn' = hReturn)]_vars

\* The error of a device that is not registered is the chosen result while the
\* other goroutine still runs.
C18_Witness ==
    /\ hPc = "selected"
    /\ IsNonRegisteredFailure(hReturn.err)
    /\ \E g \in Goroutines : gPc[g] = "run"

\* The goroutines startGoroutines started.
StartedGoroutines == {g \in Goroutines : gPc[g] # "none"}

\* C19 as stated: when one goroutine was started and it failed with an ordinary
\* error, the error HandleMFAGoroutines returns is that error itself.
C19_SingleErrorItself ==
    \A g \in Goroutines :
        (Selected /\ StartedGoroutines = {g} /\ hErrs = <<GoroutineErr(g)>>)
        => hReturn = Returns(0, GoroutineErr(g))

\* C19 as amended: when one goroutine was started and it failed with an
\* ordinary error, HandleMFAGoroutines returns no response and the aggregate of
\* that one error under the message "failed to authenticate using available
\* MFA devices": the error of the goroutine is inside the aggregate.
C19_SingleErrorAggregated ==
    \A g \in Goroutines :
        (Selected /\ StartedGoroutines = {g} /\ hErrs = <<GoroutineErr(g)>>)
        => /\ hReturn.resp = 0
           /\ hReturn.err.type = "trace"
           /\ hReturn.err.msg = FailedToAuthenticate
           /\ hReturn.err.inner = <<Error("aggregate", 0, "", <<GoroutineErr(g)>>)>>

\* HandleMFAGoroutines has returned after its one goroutine failed with an ordinary error.
C19_Witness ==
    \E g \in Goroutines :
        /\ hPc = "returned" /\ StartedGoroutines = {g} /\ hErrs = <<GoroutineErr(g)>>
        /\ IsAggregateFailure(hReturn.err)

\* The ordinary errors of the goroutines, in the order in which they sent them.
ErrorsAsSent == [i \in 1..Len(sent) |-> GoroutineErr(sent[i])]

\* C20: with two goroutines started, HandleMFAGoroutines chooses the aggregate
\* failure only when both have sent their response and ended and both
\* responses were received, and the aggregate then holds the two errors in the
\* order in which they were sent to respC; when both sent an ordinary error
\* the aggregate failure is what it chooses.
C20_AggregateInOrder ==
    (Selected /\ Cardinality(StartedGoroutines) = 2) =>
        /\ IsAggregateFailure(hReturn.err) =>
              /\ Len(sent) = 2 /\ wgDone /\ respCClosed /\ respC = <<>>
              /\ hReturn = Returns(0, Wrap(Error("aggregate", 0, "", ErrorsAsSent),
                                           FailedToAuthenticate))
        /\ Len(hErrs) = 2 => IsAggregateFailure(hReturn.err)

\* HandleMFAGoroutines has returned the aggregate failure after the second
\* goroutine failed before the first.
C20_Witness ==
    /\ hPc = "returned"
    /\ sent = <<2, 1>>
    /\ IsAggregateFailure(hReturn.err)
    /\ hReturn.err.inner[1].inner = <<GoroutineErr(2), GoroutineErr(1)>>

\* C21: whatever HandleMFAGoroutines returns (a response, the error of a device
\* that is not registered, or the aggregate), once it has returned the context
\* it gave to the goroutines is cancelled and no goroutine it started is still
\* running.
C21_NoLeak ==
    hPc = "returned" =>
        /\ mfaCancel
        /\ \A g \in Goroutines : gPc[g] # "run"

\* HandleMFAGoroutines returned the response of one goroutine while the response
\* of the other, which it had to wait for, is left unread in respC.
C21_Witness ==
    /\ hPc = "returned"
    /\ hReturn.err = NilErr
    /\ Len(sent) = 2
    /\ respC # <<>>

\* GetRunOptions has returned.
RunOptsReturned == runOpts # NotCalled

\* C22: GetRunOptions returns a BadParameter error exactly when the challenge
\* has neither a TOTP nor a Webauthn challenge, or has no TOTP challenge and
\* the platform does not support Webauthn; in every other case it returns no
\* error.
C22_BadParameterExactly ==
    RunOptsReturned =>
        LET noModality ==
                \/ ~chal.TOTP /\ ~chal.WebauthnChallenge
                \/ ~chal.TOTP /\ ~promptConfig.WebauthnSupported
        IN /\ noModality => runOpts.err.type = "BadParameter"
           /\ ~noModality => runOpts.err = NilErr

\* GetRunOptions refused a challenge that has a Webauthn challenge only, on a
\* platform without Webauthn support.
C22_Witness ==
    /\ RunOptsReturned
    /\ chal.WebauthnChallenge
    /\ ~chal.TOTP
    /\ ~promptConfig.WebauthnSupported
    /\ runOpts.err.type = "BadParameter"

\* The prompts as the challenge and the platform leave them, before any preference.
GatedTOTP == chal.TOTP
GatedWebauthn == chal.WebauthnChallenge /\ promptConfig.WebauthnSupported

\* The preference rules, each on its own.
RulePreferOTP == GatedTOTP /\ promptConfig.PreferOTP
RuleAttachment == GatedWebauthn /\ promptConfig.AuthenticatorAttachment # AttachmentAuto
RuleNoStdinHijack == GatedWebauthn /\ ~promptConfig.AllowStdinHijack

\* C23: when GetRunOptions returns no error, it has applied the first of the
\* preference rules that matches and no other: PreferOTP with a TOTP challenge
\* switches Webauthn off (even when an authenticator attachment is asked for);
\* otherwise an attachment other than auto with Webauthn still on switches TOTP
\* off; otherwise AllowStdinHijack false with Webauthn still on switches TOTP
\* off; otherwise both prompts stay as the challenge and the platform leave them.
C23_FirstRuleOnly ==
    RunOptsReturned /\ runOpts.err = NilErr =>
        /\ RulePreferOTP => runOpts.opts = RunOpts(GatedTOTP, FALSE)
        /\ ~RulePreferOTP /\ RuleAttachment => runOpts.opts = RunOpts(FALSE, GatedWebauthn)
        /\ ~RulePreferOTP /\ ~RuleAttachment /\ RuleNoStdinHijack =>
               runOpts.opts = RunOpts(FALSE, GatedWebauthn)
        /\ ~RulePreferOTP /\ ~RuleAttachment /\ ~RuleNoStdinHijack =>
               runOpts.opts = RunOpts(GatedTOTP, GatedWebauthn)

\* PreferOTP and an authenticator attachment both match: GetRunOptions returned
\* the TOTP prompt alone.
C23_Witness ==
    /\ RunOptsReturned
    /\ RulePreferOTP
    /\ RuleAttachment
    /\ RuleNoStdinHijack
    /\ runOpts = RunOptsReturn(RunOpts(TRUE, FALSE), NilErr)

\* Get returned a client to caller p.
GetOk(p) == cRet[p].err = NilErr

\* The calls of clientBuilder made by a Get that read the certificate of generation g.
BuildsOf(g) == {i \in 1..Len(buildLog) : buildLog[i].gen = g}

\* C24: Get calls that read the same, unchanged certificate return the same
\* client, a client that clientBuilder built, and as long as no build fails
\* clientBuilder is called at most once for that certificate: not at all when
\* the cache holds a client for it.
C24_SameHandleOneBuild ==
    /\ \A p, q \in Callers :
           GetOk(p) /\ GetOk(q) /\ cGen[p] = cGen[q] => cRet[p].client = cRet[q].client
    /\ \A p \in Callers :
           GetOk(p) => \E i \in 1..Len(buildLog) : buildLog[i].client = cRet[p].client
    /\ \A g \in 0..certGen :
           (\A i \in BuildsOf(g) : buildLog[i].client # 0) => Cardinality(BuildsOf(g)) <= 1

\* Two Get calls, one after the other, returned the one client that was built.
C24_Witness ==
    /\ \A p \in Callers : GetOk(p) /\ ~cRaced[p] /\ cRet[p].client = 1 /\ cGen[p] = certGen
    /\ Len(buildLog) = 1

\* The step by which the Get of caller p returns the client it has just built.
RebuildReturn(p) == cPc[p] = "build" /\ cPc'[p] = "holding"

\* The step by which the Get of caller p goes on after certGetter returned
\* without error.
CertRead(p) == cPc[p] = "locked" /\ cPc'[p] # "locked" /\ cRet'[p].err.type # "trace"

\* C25: a Get that reads certificate bytes other than those stored with the
\* cached client calls clientBuilder, once; when the build succeeds it returns
\* the new client and the previous client is handed to RetireClient in a
\* goroutine, which closes it in the end. Get is never held up by that: it can
\* return while another caller still holds the previous client.
C25_RebuildRetiresOld ==
    /\ [][\A p \in Callers :
            /\ CertRead(p) /\ ~noCertificate(cert) /\ cachedClient # 0
                    /\ ~BytesEqual(cert, cachedCert)
                 => cPc'[p] = "build" /\ buildLog' = buildLog
            /\ RebuildReturn(p)
                 => /\ Len(buildLog') = Len(buildLog) + 1
                    /\ cRet'[p] = GetReturn(cachedClient', TRUE, NilErr)
                    /\ cachedClient' \notin {0, cachedClient}
                    /\ clientState'[cachedClient'] = "open"
                    /\ cachedClient # 0 => clientState'[cachedClient] = "retiring"]_vars
    /\ [](\A p \in Callers : cPc[p] = "build" => ENABLED GetBuild(p))
    /\ \A k \in Clients : (clientState[k] = "retiring") ~> (clientState[k] = "closed")

\* Get returned the second client to one caller while the other caller still
\* holds the first one, which waits to be closed.
C25_Witness ==
    \E p, q \in Callers :
        /\ cPc[p] = "holding" /\ cRet[p].client = 2
        /\ cPc[q] = "holding" /\ cRet[q].client = 1
        /\ clientState[1] = "retiring"
        /\ cachedClient = 2

\* The error of a Get that found no certificate.
NoCertificateErr == CompareFailed("no certificate in tbot's memory, cannot compare")

\* C26: when certGetter returns nil or empty bytes without an error, Get returns
\* the CompareFailed error with a nil client and a nil release function, does
\* not call clientBuilder, and leaves cachedCert, cachedClient and every client
\* as they were, whether a client is cached or not.
C26_NoCertificate ==
    [][\A p \in Callers :
          CertRead(p) /\ cert \in {NilCert, EmptyCert}
          => /\ cRet'[p] = GetReturn(0, FALSE, NoCertificateErr)
             /\ cPc'[p] = "idle"
             /\ buildLog' = buildLog
             /\ cachedCert' = cachedCert
             /\ cachedClient' = cachedClient
             /\ clientState' = clientState]_vars

\* Get found empty bytes while a client was cached, and returned the error.
C26_Witness ==
    \E p \in Callers :
        /\ cRet[p] = GetReturn(0, FALSE, NoCertificateErr)
        /\ cCert[p] = EmptyCert
        /\ cachedClient # 0
        /\ clientState[cachedClient] = "open"

\* The clients built by the Get calls that read the certificate of generation g.
BuiltFor(g) == {buildLog[i].client : i \in BuildsOf(g)} \ {0}

\* C27: however the Get calls of concurrent callers interleave, at most one
\* client is built for a generation of the certificate, and every caller whose
\* Get read that generation is given that client; a caller that found the mutex
\* locked builds nothing.
C27_OneBuildPerGeneration ==
    /\ \A g \in 0..certGen : Cardinality(BuiltFor(g)) <= 1
    /\ \A p \in Callers :
           GetOk(p) => \A k \in BuiltFor(cGen[p]) : cRet[p].client = k

\* A caller called Get while the other held the mutex; both were given the one
\* client that was built.
C27_Witness ==
    \E p, q \in Callers :
        /\ p # q
        /\ cRaced[q] /\ ~cRaced[p]
        /\ GetOk(p) /\ GetOk(q)
        /\ cGen[p] = cGen[q]
        /\ cRet[p].client = cRet[q].client
        /\ buildLog = <<[gen |-> cGen[p], client |-> cRet[p].client]>>

\* C28: a client that Get returned is not closed while a caller that was given
\* it has not called its release function: RetireClient closes a replaced
\* client only after every usage lock on it is released.
C28_NotClosedWhileHeld ==
    \A p \in Callers :
        cPc[p] = "holding" => clientState[cRet[p].client] \in {"open", "retiring"}

\* The first client was closed after the caller that had it released it, while
\* the other caller holds the second client.
C28_Witness ==
    \E p, q \in Callers :
        /\ cPc[p] = "idle" /\ cRet[p].client = 1
        /\ clientState[1] = "closed"
        /\ cPc[q] = "holding" /\ cRet[q].client = 2

\* The step by which the Get of caller p returns the error of clientBuilder.
BuildFails(p) == cPc[p] = "build" /\ cPc'[p] = "idle"

\* The last call of clientBuilder failed for the certificate that is still in memory.
LastBuildFailed ==
    /\ buildLog # <<>>
    /\ buildLog[Len(buildLog)] = [gen |-> certGen, client |-> 0]

\* C29: when clientBuilder fails, Get returns its error with a nil client and a
\* nil release function after that one call, and leaves cachedCert,
\* cachedClient and every client as they were, the cached client not retired;
\* the next Get that reads the same certificate calls clientBuilder again.
C29_BuildErrorPropagated ==
    [][\A p \in Callers :
          /\ BuildFails(p)
               => /\ cRet'[p] = GetReturn(0, FALSE, Wrap(ClientBuilderErr, ""))
                  /\ Len(buildLog') = Len(buildLog) + 1
                  /\ cachedCert' = cachedCert
                  /\ cachedClient' = cachedClient
                  /\ clientState' = clientState
          /\ CertRead(p) /\ LastBuildFailed /\ cert \in Certs
               => cPc'[p] = "build"]_vars

\* clientBuilder failed while the first client was cached, and the next Get
\* called it again for the same certificate and got the third client.
C29_Witness ==
    /\ Len(buildLog) = 3
    /\ buildLog[1].client = 1
    /\ buildLog[2].client = 0
    /\ buildLog[3] = [gen |-> buildLog[2].gen, client |-> 3]
    /\ cachedClient = 3
    /\ clientState[1] \in {"retiring", "closed"}

\* The step by which the Get of caller p returns a client.
ReturnsClient(p) == cPc[p] # "holding" /\ cPc'[p] = "holding"

\* C30 as stated: every client Get returns is, when Get returns it, the cached
\* client, stored with the bytes this Get read, and those bytes are the
\* certificate that is in memory at that moment.
C30_StoredUnderActiveCert ==
    [][\A p \in Callers :
          ReturnsClient(p)
          => /\ cRet'[p].client = cachedClient'
             /\ cachedClient' # 0
             /\ cCert'[p] \in Certs
             /\ BytesEqual(cachedCert', cCert'[p])
             /\ BytesEqual(cachedCert', cert')]_vars

\* C30: every client Get returns is, when Get returns it, the cached client,
\* and the bytes stored with it are the non-empty bytes this Get read from
\* certGetter; they are the certificate in memory unless it changed after this
\* Get read it.
C30_StoredUnderReadCert ==
    [][\A p \in Callers :
          ReturnsClient(p)
          => /\ cRet'[p].client = cachedClient'
             /\ cachedClient' # 0
             /\ cCert'[p] \in Certs
             /\ BytesEqual(cachedCert', cCert'[p])
             /\ cGen'[p] = certGen' => BytesEqual(cachedCert', cert')]_vars

\* After the certificate changed, Get returned the second client, stored with
\* the bytes it read, while the certificate had changed again during the build.
C30_Witness ==
    \E p \in Callers :
        /\ cPc[p] = "holding"
        /\ cRet[p].client = 2
        /\ cachedClient = 2
        /\ cachedCert = cCert[p]
        /\ cGen[p] = 1
        /\ certGen = 2
        /\ cert # cachedCert

\* C40: when GetRunOptions returns no error, at least one prompt is on, a prompt
\* that is on has its challenge, the Webauthn prompt is on only on a platform
\* that supports Webauthn, and both prompts are on only when both challenges
\* are there, Webauthn is supported, PreferOTP is off, the authenticator
\* attachment is auto and AllowStdinHijack is on.
C40_RunOptsInvariants ==
    RunOptsReturned /\ runOpts.err = NilErr =>
        /\ runOpts.opts.PromptTOTP \/ runOpts.opts.PromptWebauthn
        /\ runOpts.opts.PromptTOTP => chal.TOTP
        /\ runOpts.opts.PromptWebauthn => chal.WebauthnChallenge /\ promptConfig.WebauthnSupported
        /\ runOpts.opts.PromptTOTP /\ runOpts.opts.PromptWebauthn =>
              /\ chal.TOTP /\ chal.WebauthnChallenge
              /\ promptConfig.WebauthnSupported
              /\ ~promptConfig.PreferOTP
              /\ promptConfig.AuthenticatorAttachment = AttachmentAuto
              /\ promptConfig.AllowStdinHijack

\* GetRunOptions returned both prompts.
C40_Witness ==
    /\ RunOptsReturned
    /\ runOpts = RunOptsReturn(RunOpts(TRUE, TRUE), NilErr)

\* C39: in every state the cache holds a client exactly when it holds a
\* non-empty certificate, the cached client has not been given to RetireClient
\* and every other client that was built has; and a client is given to
\* RetireClient in one step only, the step that replaces it in the cache.
C39_CacheConsistent ==
    /\ [](/\ cachedClient # 0 <=> cachedCert \in Certs
          /\ cachedClient # 0 => clientState[cachedClient] = "open"
          /\ \A k \in Clients :
                k # cachedClient => clientState[k] \in {"none", "retiring", "closed"})
    /\ [][\A k \in Clients :
            /\ cachedClient = k /\ cachedClient' # k
                 => clientState[k] = "open" /\ clientState'[k] = "retiring"
            /\ clientState[k] # "retiring" /\ clientState'[k] = "retiring"
                 => clientState[k] = "open" /\ cachedClient = k /\ cachedClient' \notin {0, k}]_vars

\* The second client is cached with its certificate and the first one was given
\* to RetireClient while a caller still holds it.
C39_Witness ==
    /\ cachedClient = 2
    /\ cachedCert \in Certs
    /\ clientState[1] = "retiring"
    /\ Holders(1) # {}

\* The step by which HandleMFAGoroutines receives the oldest response of respC.
Receives == hPc = "range" /\ respC # <<>> /\ respC' = Tail(respC)

\* The places of respC that hold a response without error.
Successes == {i \in 1..Len(respC) : respC[i].Err = NilErr}

\* The first of them.
FirstSuccess == CHOOSE i \in Successes : \A j \in Successes : i <= j

\* C32 as stated: when HandleMFAGoroutines chooses what it returns while a
\* response without error is in respC, sent before the response it is reading
\* was read, it returns the first such response.
C32_FirstSuccessSent ==
    [][Receives /\ hPc' = "selected" /\ Successes # {}
       => hReturn' = Returns(respC[FirstSuccess].Resp, NilErr)]_vars

\* C32 as amended: the first response without error in respC that has no error
\* of a device that is not registered in front of it is what
\* HandleMFAGoroutines returns: it is returned, without error, when it is
\* received, the ordinary errors in front of it are received and collected
\* without ending the loop, and what was chosen does not change.
C32_FirstSuccessInOrder ==
    [][/\ (/\ Receives
           /\ Successes # {}
           /\ \A j \in 1..(FirstSuccess - 1) : ~IsNonRegistered(respC[j].Err))
          => IF FirstSuccess = 1
             THEN /\ hPc' = "selected"
                  /\ hReturn' = Returns(respC[1].Resp, NilErr)
                  /\ hErrs' = hErrs
             ELSE /\ hPc' = "range"
                  /\ hErrs' = Append(hErrs, respC[1].Err)
                  /\ Successes' # {}
                  /\ respC'[FirstSuccess'] = respC[FirstSuccess]
       /\ Selected => (Selected' /\ hReturn' = hReturn)]_vars

\* HandleMFAGoroutines returned the response of the second goroutine, without
\* error, after it had received the ordinary error of the first.
C32_Witness ==
    /\ hPc = "returned"
    /\ sent = <<1, 2>>
    /\ hErrs = <<GoroutineErr(1)>>
    /\ hReturn = Returns(2, NilErr)

\* C38: when startGoroutines starts at most two goroutines and each sends one
\* response, a goroutine that has not sent yet can always send, respC having
\* room for it also after HandleMFAGoroutines stopped receiving, and
\* HandleMFAGoroutines returns in the end.
C38_Terminates ==
    /\ [](Cardinality(StartedGoroutines) <= 2
          => \A g \in Goroutines : gPc[g] = "run" => ENABLED GoroutineResponse(g))
    /\ (hPc # "start" /\ Cardinality(StartedGoroutines) <= 2) ~> (hPc = "returned")

\* HandleMFAGoroutines returned the error of a device that is not registered
\* after waiting for the second goroutine, whose response nobody received.
C38_Witness ==
    /\ hPc = "returned"
    /\ IsNonRegisteredFailure(hReturn.err)
    /\ Len(sent) = 2
    /\ Len(respC) = 1
    /\ ~respCClosed

\* The watches started for cluster c so far.
StartedFor(c) == {w \in Watches : Started(w) /\ wCluster[w] = c}

\* C36: the deferred function of an exiting watch goroutine changes the
\* registry and cancels a context only when the entry of its cluster is its
\* own, and then it is that entry and that context alone; and every entry of
\* the registry is the watch started last for its cluster.
C36_SelfRemovalOwnOnly ==
    /\ [][\A w \in Watches :
            wPc[w] = "exit" /\ wPc'[w] = "done"
            => /\ \A c \in Clusters :
                     headlessWatcherClosers'[c] # headlessWatcherClosers[c]
                     => c = wCluster[w] /\ headlessWatcherClosers[c] = w
                        /\ headlessWatcherClosers'[c] = 0
               /\ \A v \in Watches : wCancel'[v] # wCancel[v] => v = w]_vars
    /\ [](\A c \in Clusters :
            headlessWatcherClosers[c] # 0
            => /\ headlessWatcherClosers[c] \in StartedFor(c)
               /\ \A v \in StartedFor(c) : v <= headlessWatcherClosers[c])

\* The first watch exited after the second had replaced it under the same
\* cluster: the second is still registered and not cancelled.
C36_Witness ==
    /\ ~closeContext
    /\ wPc[1] = "done"
    /\ wPrev[2] = 1
    /\ headlessWatcherClosers[wCluster[2]] = 2
    /\ wCluster[1] = wCluster[2]
    /\ ~wCancel[2]

\* C37: when the loop of a watch processes a terminal resolution event of a
\* name, the context of every notification of that watch and that name that is
\* still in flight is cancelled by that step, however many put events of the
\* name the pending stream delivered before.
C37_AllInFlightCancelled ==
    [][\A w \in Watches : \A n \in Names :
          (wPc[w] = "run" /\ n \notin resolved[w] /\ n \in resolved'[w])
          => \A t \in Tasks :
                (InFlight(t) /\ tWatch[t] = w /\ tName[t] = n) => tCancel'[t]]_vars

\* The calls that wait for the init event, the goroutines of their watches and
\* the environment, under the scheduling of the runtime: a goroutine that can
\* run does run, so the caller leaves its select once a case is ready, the
\* goroutine of a watch evaluates cluster.Connected(), leaves a select whose
\* context is done, sees its retry timer fire, and runs its deferred function
\* once it has the mutex. Nothing makes the backend deliver an event, the
\* cluster reconnect or the service stop.
WaitingCalls ==
    \/ \E c \in Clusters : StartHeadlessWatcher(c, TRUE)
    \/ StartHeadlessWatcherReturn

NextStart == WaitingCalls \/ QuietLoop \/ Environment

StartFairness ==
    /\ WF_vars(StartHeadlessWatcherReturn)
    /\ \A w \in Watches :
          /\ WF_vars(LoopTop(w, StreamErrors))
          /\ WF_vars(LoopCtxDone(w))
          /\ WF_vars(Backoff(w))
          /\ WF_vars(LoopExit(w))

SpecStart == Init /\ [][NextStart]_vars /\ StartFairness

\* C34: when the goroutine of a watch leaves its loop while the
\* StartHeadlessWatcher(uri, true) call that started it still waits for the init
\* event, the call eventually returns and the deferred self-removal of the
\* goroutine eventually completes.
C34_StartReturns ==
    \A w \in Watches :
        (lastStart.ret = "waiting" /\ lastStart.w = w /\ wPc[w] = "exit")
        ~> (lastStart.ret # "waiting" /\ wPc[w] = "done")

\* C35: while a StartHeadlessWatcher(uri, true) call still waits for the init
\* event of its watch and the service runs, StopHeadlessWatcher for the same
\* cluster, StopHeadlessWatcher for any other cluster and StopHeadlessWatchers
\* can complete: none of them waits for that initialization.
C35_RegistryNotBlocked ==
    (lastStart.ret = "waiting" /\ ~closeContext)
    => /\ \A c \in Clusters : ENABLED StopHeadlessWatcher(c)
       /\ ENABLED StopHeadlessWatchers

\* C31: the loop of a watch is never blocked by its notifications. Whatever
\* notifications wait for the semaphore or are inside the call of the tshd
\* events client, a loop in its select can process a put event of the pending
\* stream, a terminal event of the resolution stream and the cancellation of
\* its context; the step that dispatches a notification leaves the loop in its
\* select; and no step in which a notification in flight ends, fails or has its
\* context cancelled changes the position or the result of any loop.
C31_LoopNeverBlocked ==
    /\ [](\A w \in Watches :
            wPc[w] = "run"
            => /\ \A n \in Names :
                    nextT <= MaxTasks => ENABLED PendingEvent(w, {Event("put", n, "pending")})
               /\ \A n \in Names : ENABLED ResolutionEvent(w, {Event("put", n, "approved")})
               /\ \A n \in Names : ENABLED ResolutionEvent(w, {Event("delete", n, "pending")})
               /\ WatchCtxDone(w) => ENABLED LoopCtxDone(w))
    /\ [][/\ nextT' # nextT => (wPc' = wPc /\ wErr' = wErr)
          /\ \A t \in Tasks :
                (InFlight(t) /\ (tPc'[t] # tPc[t] \/ tCancel'[t] # tCancel[t]))
                => (wPc' = wPc /\ wErr' = wErr)]_vars

\* A loop in its select with one notification inside the call and a later one
\* of the same watch waiting for the semaphore, after a terminal resolution
\* event was processed while both were in flight.
C31_Witness ==
    \E w \in Watches :
        /\ wPc[w] = "run"
        /\ tPc[1] = "notify" /\ tWatch[1] = w /\ ~tCancel[1]
        /\ tPc[2] = "acquire" /\ tWatch[2] = w /\ tCancel[2]
        /\ resolved[w] # {}

\* The retry object of one watch through any sequence of failures, init events
\* and restarts.
SpecRetry == Init /\ [][Retry]_vars

\* C33: the init event of the pending stream resets the retry object, so that
\* its delay is First again; every restart increments its attempt counter by
\* exactly one; and the delay waited before the n-th consecutive restart since
\* the last init event is the jitter of min(First + (n-1) * Step, Max), where
\* Step is a fifth of the maximal backoff, and is never more than the maximal backoff.
C33_RetryDelay ==
    /\ [][(rPc = "watch" /\ rPc' = "run")
          => (attempt' = 0 /\ LinearDuration(first', attempt') = first)]_vars
    /\ [][(rPc = "select" /\ rPc' = "top")
          => /\ attempt' = attempt + 1
             /\ waited' \in HalfJitter(Min(first + restarts * (MaxWatcherBackoff \div 5),
                                           MaxWatcherBackoff))
             /\ waited' <= MaxWatcherBackoff]_vars
    /\ [](rPc = "select" => attempt = restarts)

\* The sixth consecutive restart without an init event, with a First that is
\* not zero, waited the maximal backoff.
C33_Witness ==
    /\ rPc = "top"
    /\ restarts = 6
    /\ attempt = 6
    /\ first > 0
    /\ waited = MaxWatcherBackoff
====
